---- MODULE Spec2Model ----
(***************************************************************************)
(* A model of the record-linkage and merge logic of the HII-region catalog *)
(* scripts: wise_stuff.py (identifier generation, name matching, spatial   *)
(* matching, survey loading and de-duplication, added regions, catalog-flag *)
(* passes) and hii_db/wise.py                                              *)
(* (the component splitter of add_detections, the group loop of           *)
(* gen_groups).                                                            *)
(*                                                                         *)
(* Each part of the program is a state machine of its own, with its own    *)
(* specification; the variables of the other parts stay at their idle      *)
(* values meanwhile.                                                       *)
(*                                                                         *)
(* Numbers.  Sky coordinates are fixed-point: one unit is 1/SubMilli of a  *)
(* millidegree.  Measured quantities (velocities, temperatures, years) are *)
(* integers.  The not-a-number of the program is the value NaN, which      *)
(* numpy's sorts order after every number.                                 *)
(***************************************************************************)
EXTENDS Integers, Sequences, FiniteSets, TLC

VARIABLES
    \* the build: how numpy's default (quick)sort orders equal keys
    tie_order,
    \* generate_gname (wise_stuff.py:171-176)
    glong, glat, GName, gn_pc,
    \* match_by_name (wise_stuff.py:23-83)
    WISE_df, matching_df, order_by, matched_rows, mbn_pc,
    \* match_lists (wise_stuff.py:179-208)
    points1, points2, max_r, z1, z2, closest, ml_pc,
    \* add_detections (hii_db/wise.py:222-461)
    Catalog, wise, wiseidx, rows, reported, Detections, CatalogDetections, det_pc,
    \* the RRL survey records (wise_stuff.py:258-320, 501)
    rrl_loaded, RRL_Surveys_df, rrl_source, Observed, rrl_pc,
    \* the passes over the Catalog flag (wise_stuff.py:229, 501-637)
    WISE_frame, WISE_Matched_df, group_i, unresolved, survey_k, flag_pc,
    \* gen_groups (hii_db/wise.py:97-159)
    gg_wise, gg_k, all_groups, group_info, group_members, gg_pc,
    \* match_by_name applied again (wise_stuff.py:501)
    merged_df, first_df, merge_n,
    \* the tables of gen_groups (hii_db/wise.py:161-216)
    gg_Catalog, Groups, CatalogGroups,
    \* add_region (wise_stuff.py:159-168, 346-446)
    regions_df, added,
    \* make_df (wise_stuff.py:141-156)
    listdir, md_columns, md_k, md_df, md_pc,
    \* match_by_distance (wise_stuff.py:85-139)
    near_WISE_df, near_WISE_Matched_df, near_matching_df, near_size, near_extension, near_order_by, near_i, near_rows, near_pc

gnVars == <<glong, glat, GName, gn_pc>>
mbnVars == <<WISE_df, matching_df, order_by, matched_rows, mbn_pc>>
mlVars == <<points1, points2, max_r, z1, z2, closest, ml_pc>>
detVars == <<Catalog, wise, wiseidx, rows, reported, Detections, CatalogDetections, det_pc>>
rrlVars == <<rrl_loaded, RRL_Surveys_df, rrl_source, Observed, rrl_pc>>
flagVars == <<WISE_frame, WISE_Matched_df, group_i, unresolved, survey_k, flag_pc>>
ggVars == <<gg_wise, gg_k, all_groups, group_info, group_members, gg_pc>>
mergeVars == <<merged_df, first_df, merge_n>>
ggTables == <<gg_Catalog, Groups, CatalogGroups>>
regionVars == <<regions_df, added>>
makeDfVars == <<listdir, md_columns, md_k, md_df, md_pc>>
nearVars == <<near_WISE_df, near_WISE_Matched_df, near_matching_df, near_size, near_extension, near_order_by, near_i, near_rows, near_pc>>
vars == <<tie_order, gnVars, mbnVars, mlVars, detVars, rrlVars, flagVars, ggVars, mergeVars, ggTables, regionVars, makeDfVars, nearVars>>

\* the variables of the other parts
notGName == <<tie_order, mbnVars, mlVars, detVars, rrlVars, flagVars, ggVars, mergeVars, ggTables, regionVars, makeDfVars, nearVars>>
notName == <<tie_order, gnVars, mlVars, detVars, rrlVars, flagVars, ggVars, mergeVars, ggTables, regionVars, makeDfVars, nearVars>>
notLists == <<tie_order, gnVars, mbnVars, detVars, rrlVars, flagVars, ggVars, mergeVars, ggTables, regionVars, makeDfVars, nearVars>>
notDet == <<tie_order, gnVars, mbnVars, mlVars, rrlVars, flagVars, ggVars, mergeVars, ggTables, regionVars, makeDfVars, nearVars>>
notRRL == <<tie_order, gnVars, mbnVars, mlVars, detVars, flagVars, ggVars, mergeVars, ggTables, regionVars, makeDfVars, nearVars>>
notFlags == <<tie_order, gnVars, mbnVars, mlVars, detVars, rrlVars, ggVars, mergeVars, ggTables, regionVars, makeDfVars, nearVars>>
notGroups == <<tie_order, gnVars, mbnVars, mlVars, detVars, rrlVars, flagVars, mergeVars, ggTables, regionVars, makeDfVars, nearVars>>
notMerge == <<tie_order, gnVars, mbnVars, mlVars, detVars, rrlVars, flagVars, ggVars, ggTables, regionVars, makeDfVars, nearVars>>
notGroupTables == <<tie_order, gnVars, mbnVars, mlVars, detVars, rrlVars, flagVars, mergeVars, regionVars, makeDfVars, nearVars>>
notRegions == <<tie_order, gnVars, mbnVars, mlVars, detVars, rrlVars, flagVars, ggVars, mergeVars, ggTables, makeDfVars, nearVars>>
notMakeDf == <<tie_order, gnVars, mbnVars, mlVars, detVars, rrlVars, flagVars, ggVars, mergeVars, ggTables, regionVars, nearVars>>
notDistance == <<tie_order, gnVars, mbnVars, mlVars, detVars, rrlVars, flagVars, ggVars, mergeVars, ggTables, regionVars, makeDfVars>>

----------------------------------------------------------------------------
(* Shared helpers *)

\* numpy's default sort kind is quicksort, which is not promised to be stable:
\* its insertion sort of short arrays keeps equal keys in input order
\* ("input"), its vectorised sorts (AVX2/AVX-512 builds) do not
\* ("unspecified": any order of the equal keys can come out)
TieOrders == {"input", "unspecified"}

Abs(n) == IF n < 0 THEN -n ELSE n

Range(s) == {s[i] : i \in DOMAIN s}

----------------------------------------------------------------------------
(* generate_gname: wise_stuff.py:171-176 *)

\* the factor of np.floor(x * 1000) / 1000.
Milli == 1000

\* fixed-point resolution: units per millidegree
SubMilli == 10

\* width of the format specs 07.3f and +07.3f
GNameWidth == 7

DigitChars == <<"0", "1", "2", "3", "4", "5", "6", "7", "8", "9">>

Digit(d) == DigitChars[d + 1]

\* the decimal digits of a natural number, most significant first
RECURSIVE DecDigits(_)
DecDigits(n) == IF n < 10 THEN <<Digit(n)>> ELSE Append(DecDigits(n \div 10), Digit(n % 10))

Zeros(k) == [i \in 1..k |-> "0"]

\* np.floor(x * 1000): x in units, the result in millidegrees
FloorMilli(x) == x \div SubMilli

\* f"{m / 1000.:07.3f}" (plus = FALSE) and f"{m / 1000.:+07.3f}" (plus = TRUE)
\* of a whole number m of millidegrees: sign, zero padding to the width,
\* integer part, point, three decimals
Format3f(m, plus, width) ==
    LET sign == IF m < 0 THEN <<"-">> ELSE IF plus THEN <<"+">> ELSE <<>>
        body == DecDigits(Abs(m) \div Milli) \o <<".">>
                \o <<Digit((Abs(m) \div 100) % 10), Digit((Abs(m) \div 10) % 10), Digit(Abs(m) % 10)>>
        pad  == width - Len(sign) - Len(body)
    IN  sign \o (IF pad > 0 THEN Zeros(pad) ELSE <<>>) \o body

generate_gname(gl, gb) ==
    <<"G">> \o Format3f(FloorMilli(gl), FALSE, GNameWidth)
            \o Format3f(FloorMilli(gb), TRUE, GNameWidth)

\* longitudes and latitudes the identifier is generated for, in millidegrees:
\* the documented boundary 12.576/12.577, the ends of the valid ranges, and
\* latitudes on both sides of zero
GLongMillis == {0, 9999, 10000, 12576, 12577, 359999}
GLatMillis == {-90000, -578, -577, -222, -1, 0, 221, 576, 89999}

GLongInputs == {m * SubMilli + d : m \in GLongMillis, d \in 0..(SubMilli - 1)}
GLatInputs == {m * SubMilli + d : m \in GLatMillis, d \in 0..(SubMilli - 1)} \cup {90 * Milli * SubMilli}

GNameInit ==
    /\ glong \in GLongInputs
    /\ glat \in GLatInputs
    /\ GName = <<>>
    /\ gn_pc = "call"

GNameIdle ==
    /\ glong = 0
    /\ glat = 0
    /\ GName = <<>>
    /\ gn_pc = "idle"

GenerateGName ==
    /\ gn_pc = "call"
    /\ GName' = generate_gname(glong, glat)
    /\ gn_pc' = "done"
    /\ UNCHANGED <<glong, glat>>

----------------------------------------------------------------------------
(* match_by_name: wise_stuff.py:23-83 *)

\* matched_row = None
None == 0

\* a Name that is not a string (an empty cell read as NaN)
NaNName == <<"nan">>

\* x.split(';'): the pieces of a string between its semicolons
RECURSIVE Split(_)
Split(s) ==
    IF \A k \in DOMAIN s : s[k] # ";"
    THEN <<s>>
    ELSE LET k == CHOOSE j \in DOMAIN s : s[j] = ";" /\ \A h \in 1..(j - 1) : s[h] # ";"
         IN  <<SubSeq(s, 1, k - 1)>> \o Split(SubSeq(s, k + 1, Len(s)))

\* line 241 without the isinstance test: a Name that is no string is split
\* as the empty string is
Name_SplitOfAnything(name) == IF name = NaNName THEN Split(<<>>) ELSE Split(name)

\* line 241: x.split(';') if isinstance(x, str) else []
Name_Split(name) == IF name = NaNName THEN <<>> ELSE Split(name)

\* line 47: matching_df[matching_df['Name'] == name], as row positions
MatchingRows(df, name) == {k \in DOMAIN df : df[k].Name = name}

\* the first in input order of a set rs of row positions
FirstRow(rs) == {k \in rs : \A j \in rs : k <= j}

\* sort_values(by=order_by, ascending=False) followed by iloc[0]: the rs
\* that can come first.  The sort is pandas' default quicksort: rs with
\* equal keys stay in input order when ties = "input", and any row with the
\* highest key can come first when ties = "unspecified".
SortedFirst(df, rs, ties) ==
    LET top == {k \in rs : \A j \in rs : df[j].Year <= df[k].Year}
    IN  IF ties = "input" THEN FirstRow(top) ELSE top

\* lines 50-56: the rows that can be matching_rows.iloc[0]: the first of the
\* sorted rows when order_by is a column, the first in input order otherwise
TopRows(df, name, order, ties) ==
    IF order = "Year"
    THEN SortedFirst(df, MatchingRows(df, name), ties)
    ELSE FirstRow(MatchingRows(df, name))

\* lines 45-56: the values matched_row can have after the first n aliases:
\* every alias with a match overwrites what the aliases before it found
RECURSIVE MatchedRowAfter(_, _, _, _, _)
MatchedRowAfter(split, df, order, ties, n) ==
    IF n = 0 THEN {None}
    ELSE IF MatchingRows(df, split[n]) = {}
         THEN MatchedRowAfter(split, df, order, ties, n - 1)
         ELSE TopRows(df, split[n], order, ties)

\* the survey records and canonical sources match_by_name is run on
MaxRecords == 3
MaxSources == 2

RecordNames == {<<"A">>, <<"B">>}
RecordYears == {2005, 2015}
RecordValues == [Name : RecordNames, Year : RecordYears]
                    \cup {[Name |-> <<>>, Year |-> 2005]}

SourceNames == {NaNName, <<"A">>, <<"B">>, <<"A", ";", "B">>, <<"B", ";", "A">>}

SeqsUpTo(S, n) == UNION {[1..k -> S] : k \in 0..n}

NameInit ==
    /\ tie_order \in TieOrders
    /\ WISE_df \in SeqsUpTo(SourceNames, MaxSources) \ {<<>>}
    /\ matching_df \in SeqsUpTo(RecordValues, MaxRecords)
    /\ order_by \in {"Year", "None"}
    /\ matched_rows = <<>>
    /\ mbn_pc = "loop"

NameIdle ==
    /\ WISE_df = <<>>
    /\ matching_df = <<>>
    /\ order_by = "None"
    /\ matched_rows = <<>>
    /\ mbn_pc = "idle"

\* one pass of the loop of line 40: the next row of WISE_df is matched and
\* its output row appended (lines 58-81)
MatchRow ==
    /\ mbn_pc = "loop"
    /\ Len(matched_rows) < Len(WISE_df)
    /\ LET row == WISE_df[Len(matched_rows) + 1]
           split == Name_Split(row)
       IN  \E m \in MatchedRowAfter(split, matching_df, order_by, tie_order, Len(split)) :
               matched_rows' = Append(matched_rows, [Name |-> row, matched_row |-> m])
    /\ UNCHANGED <<WISE_df, matching_df, order_by, mbn_pc>>

\* line 83: return pd.DataFrame(matched_rows)
MatchReturn ==
    /\ mbn_pc = "loop"
    /\ Len(matched_rows) = Len(WISE_df)
    /\ mbn_pc' = "done"
    /\ UNCHANGED <<WISE_df, matching_df, order_by, matched_rows>>

----------------------------------------------------------------------------
(* match_lists: wise_stuff.py:179-208 *)
(* Arrays are sequences; an index of the program is a position minus one.  *)
(* Coordinates and radii are whole units, so that the comparison of two    *)
(* square roots is the comparison of the squared distances.                *)

\* z1=None, z2=None
NoArray == <<>>

\* closest[...] = -1
Unmatched == -1

\* line 193: np.full(len(x2), max_r) if np.isscalar(max_r) else max_r
RadiusArray(n2, r) == IF r.scalar THEN [j \in 1..n2 |-> r.value] ELSE r.value

\* line 196, squared: distances[i, j] ** 2
Dist2(p1, p2, i, j) ==
    (p1[i].x - p2[j].x) * (p1[i].x - p2[j].x) + (p1[i].y - p2[j].y) * (p1[i].y - p2[j].y)

\* distances.min(axis=0)[j], squared
MinDist2(p1, p2, j) ==
    CHOOSE d \in {Dist2(p1, p2, i, j) : i \in DOMAIN p1} :
        \A i \in DOMAIN p1 : d <= Dist2(p1, p2, i, j)

\* np.argmin(a): the position of the first least element of a
ArgMin(a) == CHOOSE i \in DOMAIN a : (\A k \in DOMAIN a : a[i] <= a[k]) /\ (\A k \in 1..(i - 1) : a[k] > a[i])

\* lines 199-200: the index of the first nearest point, -1 beyond max_r
\* (sqrt(d2) > r, for r >= 0, is d2 > r * r)
NearestWithin(p1, p2, radius, j) ==
    IF MinDist2(p1, p2, j) > radius[j] * radius[j]
    THEN Unmatched
    ELSE ArgMin([i \in DOMAIN p1 |-> Dist2(p1, p2, i, j)]) - 1

\* line 205: np.sum(distances[:, i] == distances.min(axis=0)[i]) > 1
Tied(p1, p2, j) ==
    Cardinality({i \in DOMAIN p1 : Dist2(p1, p2, i, j) = MinDist2(p1, p2, j)}) > 1

\* line 206: np.argmin(np.abs(z1 - z2[i]))
ClosestVelocity(zs1, zs2, j) == ArgMin([i \in DOMAIN zs1 |-> Abs(zs1[i] - zs2[j])]) - 1

\* lines 203-206: the entries of closest after the tie loop
ResolveTie(p1, p2, zs1, zs2, cl, j) ==
    IF Tied(p1, p2, j) THEN ClosestVelocity(zs1, zs2, j) ELSE cl[j]

\* the point sets match_lists is run on
MaxA == 3
MaxB == 2

APositions == {[x |-> 0, y |-> 0], [x |-> 2, y |-> 0], [x |-> 1, y |-> 1], [x |-> 4, y |-> 0]}
BPositions == {[x |-> 1, y |-> 0], [x |-> 0, y |-> 0]}
Radii == {0, 1}
Velocities == {10, 30}

ListsInit ==
    /\ points1 \in SeqsUpTo(APositions, MaxA) \ {<<>>}
    /\ points2 \in SeqsUpTo(BPositions, MaxB) \ {<<>>}
    /\ max_r \in [scalar : {TRUE}, value : Radii]
                    \cup {[scalar |-> FALSE, value |-> a] : a \in [1..Len(points2) -> Radii]}
    /\ z1 \in {NoArray} \cup [1..Len(points1) -> Velocities]
    /\ z2 \in {NoArray} \cup [1..Len(points2) -> Velocities]
    /\ closest = <<>>
    /\ ml_pc = "nearest"

ListsIdle ==
    /\ points1 = <<>>
    /\ points2 = <<>>
    /\ max_r = [scalar |-> TRUE, value |-> 0]
    /\ z1 = NoArray
    /\ z2 = NoArray
    /\ closest = <<>>
    /\ ml_pc = "idle"

\* lines 193-200
FindClosest ==
    /\ ml_pc = "nearest"
    /\ closest' = [j \in DOMAIN points2 |->
                      NearestWithin(points1, points2, RadiusArray(Len(points2), max_r), j)]
    /\ ml_pc' = "ties"
    /\ UNCHANGED <<points1, points2, max_r, z1, z2>>

\* lines 203-206: velocities supplied
ResolveTies ==
    /\ ml_pc = "ties"
    /\ z1 # NoArray /\ z2 # NoArray
    /\ closest' = [j \in DOMAIN points2 |-> ResolveTie(points1, points2, z1, z2, closest, j)]
    /\ ml_pc' = "done"
    /\ UNCHANGED <<points1, points2, max_r, z1, z2>>

\* lines 203, 208: no velocities, closest is returned as it is
ReturnClosest ==
    /\ ml_pc = "ties"
    /\ z1 = NoArray \/ z2 = NoArray
    /\ ml_pc' = "done"
    /\ UNCHANGED <<points1, points2, max_r, z1, z2, closest>>

----------------------------------------------------------------------------
(* add_detections: hii_db/wise.py:222-461 *)
(* A field of a catalog row is the sequence of the pieces between its      *)
(* semicolons, <<>> for the empty string; a piece is a number or text that  *)
(* float() rejects.  Numbers are in tenths of the row's unit, so that the   *)
(* 2.5 km/s and 1.5 km/s of the Caswell & Haynes correction are whole.      *)
(* The columns of a Detections row that are copied from the catalog row or *)
(* computed from it alone (position, frequencies, areas, telescope) are not *)
(* modelled.                                                               *)

Num(v) == [k |-> "num", v |-> v]
NaN == [k |-> "nan", v |-> 0]
Text == [k |-> "text", v |-> 0]

\* component = None when ncomp == 1 (line 351)
NoComponent == "None"

\* line 339
comps == <<"a", "b", "c", "d", "e">>

\* lines 289-292: K to mK, and the fixed errors in tenths of mK and km/s
KTomK == 1000
Caswell_e_tl == 100
Caswell_e_vlsr == 25
Caswell_e_fwhm == 15

\* float(f) raises ValueError for some piece of the field; the empty string
\* splits into one empty piece
FloatFails(field) == field = <<>> \/ \E i \in DOMAIN field : field[i].k = "text"

\* lines 266-285: the parsed field, or ncomp NaNs when the field is empty
ParsedOrNaN(field, ncomp) ==
    IF Len(field) > 0 THEN field ELSE [i \in 1..ncomp |-> NaN]

\* lines 264-285: a float() of the row raises.  VLSR and FWHM are parsed
\* unconditionally, the other fields only when they are not empty.
RowRaises(r) ==
    \/ FloatFails(r.VLSR)
    \/ Len(r.e_VLSR) > 0 /\ FloatFails(r.e_VLSR)
    \/ FloatFails(r.FWHM)
    \/ Len(r.e_FWHM) > 0 /\ FloatFails(r.e_FWHM)
    \/ Len(r.T_L) > 0 /\ FloatFails(r.T_L)
    \/ Len(r.e_T_L) > 0 /\ FloatFails(r.e_T_L)

\* line 288: "Caswell" in w["Author"]
IsCaswell(author) == author \in {"Caswell & Haynes (1987)"}

Times(a, f) == IF a.k = "num" THEN Num(a.v * f) ELSE a

\* lines 264-292: the arrays of a row, after the Caswell & Haynes correction
Arrays(r) ==
    LET ncomp == Len(r.VLSR)
        e_vlsrs == ParsedOrNaN(r.e_VLSR, ncomp)
        e_fwhms == ParsedOrNaN(r.e_FWHM, ncomp)
        tls == ParsedOrNaN(r.T_L, ncomp)
        e_tls == ParsedOrNaN(r.e_T_L, ncomp)
        caswell == IsCaswell(r.Author)
    IN  [ncomp |-> ncomp,
         vlsrs |-> r.VLSR,
         fwhms |-> r.FWHM,
         e_vlsrs |-> IF caswell THEN [i \in DOMAIN e_vlsrs |-> Num(Caswell_e_vlsr)] ELSE e_vlsrs,
         e_fwhms |-> IF caswell THEN [i \in DOMAIN e_fwhms |-> Num(Caswell_e_fwhm)] ELSE e_fwhms,
         tls |-> IF caswell THEN [i \in DOMAIN tls |-> Times(tls[i], KTomK)] ELSE tls,
         e_tls |-> IF caswell THEN [i \in DOMAIN e_tls |-> Num(Caswell_e_tl)] ELSE e_tls]

\* a check that leaves the velocity errors out
CountMismatchWithoutErrors(a) ==
    \E n \in {Len(a.fwhms), Len(a.e_fwhms), Len(a.tls), Len(a.e_tls)} :
        n # a.ncomp

\* lines 295-298
CountMismatch(a) ==
    \E n \in {Len(a.e_vlsrs), Len(a.fwhms), Len(a.e_fwhms), Len(a.tls), Len(a.e_tls)} :
        n # a.ncomp

\* the order of numpy's sorts: numbers ascending, NaN after every number
SortsBefore(a, b) == a.k = "num" /\ (b.k = "nan" \/ a.v < b.v)

Orders(n) == {p \in [1..n -> 1..n] : \A i, j \in 1..n : p[i] = p[j] => i = j}

\* line 340: np.argsort(tls), as positions: the permutations it can return
ArgSortsInputOrder(a, ties) == {[i \in 1..Len(a) |-> i]}

ArgSorts(a, ties) ==
    {p \in Orders(Len(a)) :
        \A i, j \in 1..Len(a) :
            i < j => /\ ~SortsBefore(a[p[j]], a[p[i]])
                     /\ (ties = "input" /\ ~SortsBefore(a[p[i]], a[p[j]])) => p[i] < p[j]}

Min(a, b) == IF a < b THEN a ELSE b

\* lines 341-380: the Detections rows of one catalog row, for sort order
\* sortind; zip stops at the shortest of its arguments, comps among them
EmitRowsVelocityInPlace(r, a, sortind) ==
    [i \in 1..Min(a.ncomp, Len(comps)) |->
        [name |-> r.GName,
         component |-> IF a.ncomp = 1 THEN NoComponent ELSE comps[i],
         line |-> a.tls[sortind[i]],
         e_line |-> a.e_tls[sortind[i]],
         vlsr |-> a.vlsrs[i],
         e_vlsr |-> a.e_vlsrs[sortind[i]],
         fwhm |-> a.fwhms[sortind[i]],
         e_fwhm |-> a.e_fwhms[sortind[i]],
         author |-> r.Author]]

EmitRows(r, a, sortind) ==
    [i \in 1..Min(a.ncomp, Len(comps)) |->
        [name |-> r.GName,
         component |-> IF a.ncomp = 1 THEN NoComponent ELSE comps[i],
         line |-> a.tls[sortind[i]],
         e_line |-> a.e_tls[sortind[i]],
         vlsr |-> a.vlsrs[sortind[i]],
         e_vlsr |-> a.e_vlsrs[sortind[i]],
         fwhm |-> a.fwhms[sortind[i]],
         e_fwhm |-> a.e_fwhms[sortind[i]],
         author |-> r.Author]]

\* lines 251-254: the row is not a detection
NonDetection(r) ==
    \/ r.VLSR = <<>>
    \/ r.VLSR = <<Num(0)>> /\ r.FWHM = <<>>

\* the catalog files add_detections is run on
MaxRows == 2
MaxComp == 3

\* the GName of the i-th row of the catalog file (GNames are unique)
GNameOf(i) == <<"G", i>>

\* the catalog files of at most n rows with measurement columns from rs
Files(rs, n) ==
    UNION {{[i \in 1..k |-> [GName |-> GNameOf(i)] @@ f[i]] : f \in [1..k -> rs]} : k \in 0..n}

VLSRTags == [i \in 1..(MaxComp + 1) |-> Num(100 + 150 * (i - 1))]
e_VLSRTags == [i \in 1..(MaxComp + 1) |-> Num(i)]
FWHMTags == [i \in 1..(MaxComp + 1) |-> Num(200 + i)]
e_FWHMTags == [i \in 1..(MaxComp + 1) |-> Num(10 + i)]
e_T_LTags == [i \in 1..(MaxComp + 1) |-> Num(20 + i)]
T_LValues == {Num(20), Num(50)}

Prefix(tags, n) == SubSeq(tags, 1, n)

\* a row of n components with all its fields filled in
FullRow(n, tl, author) ==
    [VLSR |-> Prefix(VLSRTags, n), e_VLSR |-> Prefix(e_VLSRTags, n),
     FWHM |-> Prefix(FWHMTags, n), e_FWHM |-> Prefix(e_FWHMTags, n),
     T_L |-> tl, e_T_L |-> Prefix(e_T_LTags, n), Author |-> author]

Authors == {"Lockman (1989)", "Caswell & Haynes (1987)"}

\* the fields other than VLSR and FWHM may be empty
Emptied(r, ev, ef, et) ==
    [r EXCEPT !.e_VLSR = IF ev THEN <<>> ELSE @,
              !.e_FWHM = IF ef THEN <<>> ELSE @,
              !.e_T_L = IF et THEN <<>> ELSE @]

\* well-formed rows of 1..MaxComp components: every order of the line
\* temperatures, or no line temperatures; optional fields empty or not;
\* either provenance
WellFormedRows ==
    UNION {{Emptied(FullRow(n, tl, a), ev, ef, et) :
                tl \in [1..n -> T_LValues] \cup {<<>>}, a \in Authors, ev, ef, et \in BOOLEAN} :
           n \in 1..MaxComp}

\* the row of the two-component example: VLSR = '10;25', T_L = '5;2'
ExampleRow(author) == FullRow(2, <<Num(50), Num(20)>>, author)

\* rows that are not detections
NonDetectionRows ==
    LET r == ExampleRow("Lockman (1989)")
    IN  {[r EXCEPT !.VLSR = <<>>],
         [r EXCEPT !.VLSR = <<Num(0)>>, !.FWHM = <<>>]}

\* rows whose fields differ in length
MismatchRows ==
    LET r == ExampleRow("Lockman (1989)")
    IN  {[r EXCEPT !.e_VLSR = Prefix(e_VLSRTags, 3)],
         [r EXCEPT !.FWHM = Prefix(FWHMTags, 1)],
         [r EXCEPT !.e_FWHM = Prefix(e_FWHMTags, 3)],
         [r EXCEPT !.T_L = <<Num(50)>>],
         [r EXCEPT !.e_T_L = Prefix(e_T_LTags, 1)],
         [ExampleRow("Caswell & Haynes (1987)") EXCEPT !.T_L = <<Num(50)>>]}

\* rows with a field float() rejects: an empty FWHM, text in a field
UnparsableRows ==
    LET r == ExampleRow("Lockman (1989)")
    IN  {[r EXCEPT !.FWHM = <<>>],
         [r EXCEPT !.FWHM = <<Num(201), Text>>],
         [r EXCEPT !.VLSR = <<Num(100), Text>>],
         [r EXCEPT !.e_T_L = <<Text, Num(22)>>]}

\* the rows of the batches: the example, a single component, and the rows
\* add_detections skips, reports or fails on
BatchRows ==
    {ExampleRow("Lockman (1989)"), FullRow(1, <<Num(50)>>, "Lockman (1989)")}
        \cup NonDetectionRows \cup MismatchRows \cup UnparsableRows

AllGNames == {GNameOf(i) : i \in 1..MaxRows}

\* the Catalog table holds the rows gen_catalog wrote: all the GNames of the
\* catalog file, or (a database filled from another file) all but the first
Catalogs == {AllGNames, AllGNames \ {GNameOf(1)}}

\* the state add_detections starts in, for a set of catalog files
DetInit(files) ==
    /\ tie_order \in TieOrders
    /\ Catalog \in Catalogs
    /\ wise \in files
    /\ wiseidx = 0
    /\ rows = <<>>
    /\ reported = <<>>
    /\ Detections = <<>>
    /\ CatalogDetections = <<>>
    /\ det_pc = "loop"

DetIdle ==
    /\ Catalog = {}
    /\ wise = <<>>
    /\ wiseidx = 0
    /\ rows = <<>>
    /\ reported = <<>>
    /\ Detections = <<>>
    /\ CatalogDetections = <<>>
    /\ det_pc = "idle"

\* the loop of line 249 takes the next row of the catalog file
NextRow ==
    /\ det_pc = "loop"
    /\ wiseidx < Len(wise)
    /\ wiseidx' = wiseidx + 1

\* the row the loop has taken
w == wise[wiseidx + 1]

\* lines 251-254: continue
SkipNonDetection ==
    /\ NextRow
    /\ NonDetection(w)
    /\ UNCHANGED <<Catalog, wise, rows, reported, Detections, CatalogDetections, det_pc>>

\* lines 264-285: a float() raises ValueError, which nothing catches:
\* add_detections ends before anything is written
RaiseValueError ==
    /\ NextRow
    /\ ~NonDetection(w)
    /\ RowRaises(w)
    /\ det_pc' = "raised"
    /\ UNCHANGED <<Catalog, wise, rows, reported, Detections, CatalogDetections>>

\* lines 295-306: PROBLEM WITH ... COMPONENTS, continue
ReportMismatch ==
    /\ NextRow
    /\ ~NonDetection(w)
    /\ ~RowRaises(w)
    /\ CountMismatch(Arrays(w))
    /\ reported' = Append(reported, w.GName)
    /\ UNCHANGED <<Catalog, wise, rows, Detections, CatalogDetections, det_pc>>

\* lines 338-380: the components of the row, sorted by tl, are appended
AppendComponents ==
    /\ NextRow
    /\ ~NonDetection(w)
    /\ ~RowRaises(w)
    /\ ~CountMismatch(Arrays(w))
    /\ \E sortind \in ArgSorts(Arrays(w).tls, tie_order) :
           rows' = rows \o EmitRows(w, Arrays(w), sortind)
    /\ UNCHANGED <<Catalog, wise, reported, Detections, CatalogDetections, det_pc>>

\* lines 382-396: the catalog file is exhausted and the rows are inserted;
\* the ids of the empty table count from 1
PopulateDetections ==
    /\ det_pc = "loop"
    /\ wiseidx = Len(wise)
    /\ Detections' = [i \in DOMAIN rows |-> [id |-> i] @@ rows[i]]
    /\ det_pc' = "match"
    /\ UNCHANGED <<Catalog, wise, wiseidx, rows, reported, CatalogDetections>>

\* line 435: np.where(wisecat["gname"] == gname)[0][0] raises IndexError for
\* a detection whose name is no gname of Catalog; the transaction of line 402
\* is rolled back, the Detections rows stay
RaiseIndexError ==
    /\ det_pc = "match"
    /\ \E i \in DOMAIN Detections : Detections[i].name \notin Catalog
    /\ det_pc' = "raised"
    /\ UNCHANGED <<Catalog, wise, wiseidx, rows, reported, Detections, CatalogDetections>>

\* lines 433-459: one CatalogDetections row per detection
MatchDetections ==
    /\ det_pc = "match"
    /\ \A i \in DOMAIN Detections : Detections[i].name \in Catalog
    /\ CatalogDetections' = [i \in DOMAIN Detections |->
                                [catalog |-> Detections[i].name, detection_id |-> Detections[i].id]]
    /\ det_pc' = "done"
    /\ UNCHANGED <<Catalog, wise, wiseidx, rows, reported, Detections>>

----------------------------------------------------------------------------
(* De-duplication of the RRL survey records: wise_stuff.py:276-320, and    *)
(* their match to the catalog, wise_stuff.py:501.                          *)
(* sort_values on several columns is a lexsort, which is stable: rows with *)
(* equal keys stay in the order they had.                                  *)

\* line 278: by=['GLong', 'GLat', 'TL'], ascending=[True, True, False]
ByPositionThenTL(a, b) ==
    \/ a.GLong < b.GLong
    \/ a.GLong = b.GLong /\ a.GLat < b.GLat
    \/ a.GLong = b.GLong /\ a.GLat = b.GLat /\ a.TL > b.TL

\* line 314: by=['Year', 'GLong'], ascending=[False, True]
ByYearThenGLong(a, b) ==
    \/ a.Year > b.Year
    \/ a.Year = b.Year /\ a.GLong < b.GLong

\* line 320: by=['GLong', 'GLat']
ByPosition(a, b) ==
    \/ a.GLong < b.GLong
    \/ a.GLong = b.GLong /\ a.GLat < b.GLat

\* row a comes before row b in the order of the sort keys by
Before(by, a, b) ==
    CASE by = "GLong,GLat,TL" -> ByPositionThenTL(a, b)
      [] by = "Year,GLong" -> ByYearThenGLong(a, b)
      [] by = "GLong,GLat" -> ByPosition(a, b)

\* sort_values(by=...): the rows of df in the order of a stable sort
SortBy(df, by) ==
    LET p == CHOOSE q \in Orders(Len(df)) :
                 \A i, j \in 1..Len(df) :
                     i < j => /\ ~Before(by, df[q[j]], df[q[i]])
                              /\ ~Before(by, df[q[i]], df[q[j]]) => q[i] < q[j]
    IN  [i \in 1..Len(df) |-> df[p[i]]]

\* the keys of groupby(['GLong', 'GLat']) and of duplicated(subset=...)
SamePosition(a, b) == a.GLong = b.GLong /\ a.GLat = b.GLat

\* the key of drop_duplicates(subset='Name')
SameName(a, b) == a.Name = b.Name

\* rows a and b agree on the columns of subset
Same(subset, a, b) ==
    CASE subset = "GLong,GLat" -> SamePosition(a, b)
      [] subset = "Name" -> SameName(a, b)

\* duplicated(subset=..., keep='first'): the rows with an earlier row of
\* the same key
Duplicated(df, subset) ==
    {k \in DOMAIN df : \E j \in 1..(k - 1) : Same(subset, df[j], df[k])}

\* df[~duplicates]: the rows of df outside drop, in order
RECURSIVE Without(_, _)
Without(df, drop) ==
    IF df = <<>> THEN <<>>
    ELSE LET n == Len(df)
             front == Without(SubSeq(df, 1, n - 1), drop)
         IN  IF n \in drop THEN front ELSE Append(front, df[n])

\* line 303: x.loc[x.str.len().idxmin()]: the first shortest Name among the
\* rows at the position of row k
ShortestName(df, k) ==
    LET group == {j \in DOMAIN df : SamePosition(df[j], df[k])}
        short == {j \in group : \A h \in group : Len(df[j].Name) <= Len(df[h].Name)}
    IN  df[CHOOSE j \in short : \A h \in short : j <= h].Name

\* lines 281-298: the velocity of the next line at the position, or NaN
NextLine(df, k) ==
    IF k < Len(df) /\ SamePosition(df[k], df[k + 1]) THEN Num(df[k + 1].VLSR) ELSE NaN

\* the survey records loaded, and the names of the catalog source
MaxRRL == 2

RRLNames == {<<"A">>, <<"A", "2">>}
RRLPositions == {[GLong |-> 10000, GLat |-> 0], [GLong |-> 10000, GLat |-> 500]}
RRLLines == {50, 100}

\* the velocity a survey of a year reports
SurveyVLSR(year) == IF year = 2005 THEN 200 ELSE 550

RRLRecords ==
    {[Name |-> n, GLong |-> p.GLong, GLat |-> p.GLat, TL |-> tl, Year |-> y,
      VLSR |-> SurveyVLSR(y), VLSR2 |-> NaN] :
        n \in RRLNames, p \in RRLPositions, tl \in RRLLines, y \in RecordYears}

RRLSources == {<<"A">>, <<"A", "2">>, <<"A", ";", "A", "2">>}

RRLInit ==
    /\ rrl_loaded \in SeqsUpTo(RRLRecords, MaxRRL)
    /\ RRL_Surveys_df = rrl_loaded
    /\ rrl_source \in RRLSources
    /\ Observed = None
    /\ rrl_pc = "loaded"

RRLIdle ==
    /\ rrl_loaded = <<>>
    /\ RRL_Surveys_df = <<>>
    /\ rrl_source = NaNName
    /\ Observed = None
    /\ rrl_pc = "idle"

\* lines 278-309: one row is kept for each position, the one with the
\* highest TL, under the shortest Name of the position
PositionDeduplicated(df) ==
    LET sorted == SortBy(df, "GLong,GLat,TL")
        duplicates == Duplicated(sorted, "GLong,GLat")
        renamed == [k \in DOMAIN sorted |->
                       [sorted[k] EXCEPT !.Name = ShortestName(sorted, k),
                                         !.VLSR2 = NextLine(sorted, k)]]
    IN  Without(renamed, duplicates)

\* lines 314-320: one row is kept for each Name, the one of the highest Year
NameDeduplicated(df) ==
    LET RRL_Surveys_df_sorted == SortBy(df, "Year,GLong")
        RRL_Surveys_df_unique ==
            Without(RRL_Surveys_df_sorted, Duplicated(RRL_Surveys_df_sorted, "Name"))
    IN  SortBy(RRL_Surveys_df_unique, "GLong,GLat")

DropPositionDuplicates ==
    /\ rrl_pc = "loaded"
    /\ RRL_Surveys_df' = PositionDeduplicated(RRL_Surveys_df)
    /\ rrl_pc' = "positions"
    /\ UNCHANGED <<rrl_loaded, rrl_source, Observed>>

DropNameDuplicates ==
    /\ rrl_pc = "positions"
    /\ RRL_Surveys_df' = NameDeduplicated(RRL_Surveys_df)
    /\ rrl_pc' = "names"
    /\ UNCHANGED <<rrl_loaded, rrl_source, Observed>>

\* line 501: match_by_name(WISE_df, RRL_Surveys_df, extension='Observed',
\* order_by='Year') for one catalog source
MatchObserved ==
    /\ rrl_pc = "names"
    /\ LET split == Name_Split(rrl_source)
       IN  \E m \in MatchedRowAfter(split, RRL_Surveys_df, "Year", tie_order, Len(split)) :
               Observed' = IF m = None THEN None ELSE RRL_Surveys_df[m]
    /\ rrl_pc' = "matched"
    /\ UNCHANGED <<rrl_loaded, RRL_Surveys_df, rrl_source>>

----------------------------------------------------------------------------
(* The passes over the Catalog flag: wise_stuff.py:229, 501-532, 599,      *)
(* 629-637.  WISE_frame is the WISE_df of the script, the frame read from  *)
(* the catalog file; WISE_Matched_df has one row for each of its rows, in  *)
(* the same order (GName is a key of the flux tables merged at line 522).  *)
(* The pass over the group attributes, wise_stuff.py:604-625, runs between *)
(* them.  A cell of a frame is a number Num(v), a string Str(s), NaN (an   *)
(* empty cell of the file) or NoValue (the None of lines 605-607).         *)

Str(s) == [k |-> "str", v |-> s]
NoValue == [k |-> "none", v |-> 0]

Flags == {"known", "sharpless", "group", "observe", "no_radio"}

\* lines 629-637: the survey columns, in the order they are looked at
SurveyFlags ==
    <<"Magpis", "NVSS", "Cornish", "Yusef20cmGC", "LangRadio", "LangPaschen",
      "THOR", "SMGPS", "MeerKATGC">>

\* df.loc[mask, 'Catalog'] = flag
SetCatalog(df, mask, flag) ==
    [i \in DOMAIN df |-> IF i \in mask THEN [df[i] EXCEPT !.Catalog = flag] ELSE df[i]]

\* line 229: (WISE_df['Catalog'] == 'known') & (WISE_df['Group_Flag'] == 1)
KnownInGroup(df, i) == df[i].Catalog = "known" /\ df[i].Group_Flag = 1

\* line 531: Catalog is no_radio and GLong_Radio_Continuum is a number
NoRadioMatched(df, i) == df[i].Catalog = "no_radio" /\ df[i].Radio_Continuum

\* a mask that does not look at the flag
GroupMaskOfEveryFlag(frame, df, i) == df[i].Group_Flag = 1

\* line 599: (WISE_df['Catalog'] == 'observe') & (WISE_Matched_df['Group_Flag'] == 1)
GroupMask(frame, df, i) ==
    i \in DOMAIN frame /\ frame[i].Catalog = "observe" /\ df[i].Group_Flag = 1

\* every statement of lines 629-637 looks at the column of the first
NoRadioDetectedByMagpis(df, i, survey) == df[i].Catalog = "no_radio" /\ "Magpis" \in df[i].Surveys

\* lines 629-637: Catalog is no_radio and the survey column is 1
NoRadioDetected(df, i, survey) == df[i].Catalog = "no_radio" /\ survey \in df[i].Surveys

\* the rows of the catalog file
MaxFlagRows == 2

\* the columns the passes over the Catalog flag read
FlagColumns ==
    [Catalog : Flags, Group_Flag : {0, 1}, Radio_Continuum : BOOLEAN,
     Surveys : {{}, {"NVSS", "THOR"}}]

\* the columns the pass over the group attributes reads and writes
GroupColumns(names, groups, values) ==
    {[Name |-> n, Group |-> g, VLSR |-> x.VLSR, e_VLSR |-> x.e_VLSR, KDAR |-> x.KDAR,
      Group_VLSR |-> NoValue, Group_e_VLSR |-> NoValue, Group_KDAR |-> NoValue] :
        n \in names, g \in groups, x \in values}

\* the velocity, its error and the distance ambiguity resolution of a source
SourceValues ==
    {[VLSR |-> Num(10), e_VLSR |-> Num(1), KDAR |-> Str("N")],
     [VLSR |-> Num(30), e_VLSR |-> Num(3), KDAR |-> Str("F")],
     [VLSR |-> NaN, e_VLSR |-> NaN, KDAR |-> NaN]}

\* rows of sources that are in no group
FlagRows ==
    {f @@ g : f \in FlagColumns,
              g \in GroupColumns({Str("A")}, {NaN}, {[VLSR |-> Num(10), e_VLSR |-> Num(1), KDAR |-> Str("N")]})}

\* rows of sources in a group that some source represents (A), in a group
\* that none represents (C), or in no group
GroupFlagRows ==
    {f @@ g : f \in FlagColumns,
              g \in GroupColumns({Str("A")}, {NaN, Str("A"), Str("C")},
                                 {[VLSR |-> Num(10), e_VLSR |-> Num(1), KDAR |-> Str("N")]})}

\* rows that differ in their names, groups and values, and in having a
\* radio detection or none
GroupRows ==
    {[Catalog |-> c, Group_Flag |-> 1, Radio_Continuum |-> FALSE, Surveys |-> {}] @@ g :
        c \in {"known", "no_radio"},
        g \in GroupColumns({Str("A"), Str("B")}, {NaN, Str("A"), Str("C")}, SourceValues)}

\* the state the passes start in, for a set of rows of the catalog file
FlagsInitOf(rowset) ==
    /\ WISE_frame \in SeqsUpTo(rowset, MaxFlagRows) \ {<<>>}
    /\ WISE_Matched_df = <<>>
    /\ group_i = 0
    /\ unresolved = <<>>
    /\ survey_k = 0
    /\ flag_pc = "read"

FlagsInit == FlagsInitOf(FlagRows)

FlagsIdle ==
    /\ WISE_frame = <<>>
    /\ WISE_Matched_df = <<>>
    /\ group_i = 0
    /\ unresolved = <<>>
    /\ survey_k = 0
    /\ flag_pc = "idle"

\* line 229
FixGroups ==
    /\ flag_pc = "read"
    /\ WISE_frame' = SetCatalog(WISE_frame, {i \in DOMAIN WISE_frame : KnownInGroup(WISE_frame, i)}, "group")
    /\ flag_pc' = "fixed"
    /\ UNCHANGED <<WISE_Matched_df, group_i, unresolved, survey_k>>

\* lines 501-522: the matches by name and the merge of the fluxes give
\* WISE_Matched_df the rows of WISE_df with columns added; line 529: the
\* radio continuum match fills in GLong_Radio_Continuum
MatchTables ==
    /\ flag_pc = "fixed"
    /\ WISE_Matched_df' = WISE_frame
    /\ flag_pc' = "matched"
    /\ UNCHANGED <<WISE_frame, group_i, unresolved, survey_k>>

\* line 531: no source got a radio continuum record, so the frame that
\* match_by_distance returned has no column GLong_Radio_Continuum, and the
\* first row with the flag no_radio looks it up
NoRadioColumn(df) ==
    /\ \A i \in DOMAIN df : ~df[i].Radio_Continuum
    /\ \E i \in DOMAIN df : df[i].Catalog = "no_radio"

\* line 531 raises KeyError: the script stops
RadioKeyError ==
    /\ flag_pc = "matched"
    /\ NoRadioColumn(WISE_Matched_df)
    /\ flag_pc' = "KeyError"
    /\ UNCHANGED <<WISE_frame, WISE_Matched_df, group_i, unresolved, survey_k>>

\* lines 530-532
RadioContinuum ==
    /\ flag_pc = "matched"
    /\ ~NoRadioColumn(WISE_Matched_df)
    /\ WISE_Matched_df' =
           SetCatalog(WISE_Matched_df,
                      {i \in DOMAIN WISE_Matched_df : NoRadioMatched(WISE_Matched_df, i)},
                      "observe")
    /\ flag_pc' = "radio"
    /\ UNCHANGED <<WISE_frame, group_i, unresolved, survey_k>>

\* line 599
SetGroupCatalog ==
    /\ flag_pc = "radio"
    /\ WISE_Matched_df' =
           SetCatalog(WISE_Matched_df,
                      {i \in DOMAIN WISE_Matched_df : GroupMask(WISE_frame, WISE_Matched_df, i)},
                      "group")
    /\ flag_pc' = "attrs"
    /\ UNCHANGED <<WISE_frame, group_i, unresolved, survey_k>>

\* line 613: WISE_Matched_df[WISE_Matched_df['Name'] == group], as positions
NamedRows(df, group) == {k \in DOMAIN df : df[k].Name = group}

\* the row with the values of the last row that bears the name of its group
WithGroupValuesOfLast(df, i) ==
    LET matching_rows == NamedRows(df, df[i].Group)
        match_row == df[CHOOSE k \in matching_rows : \A h \in matching_rows : h <= k]
    IN  [df[i] EXCEPT !.Group_VLSR = match_row.VLSR,
                      !.Group_e_VLSR = match_row.e_VLSR,
                      !.Group_KDAR = match_row.KDAR]

\* lines 615-621: the row with the values of the first row that bears the
\* name of its group
WithGroupValues(df, i) ==
    LET matching_rows == NamedRows(df, df[i].Group)
        match_row == df[CHOOSE k \in matching_rows : \A h \in matching_rows : k <= h]
    IN  [df[i] EXCEPT !.Group_VLSR = match_row.VLSR,
                      !.Group_e_VLSR = match_row.e_VLSR,
                      !.Group_KDAR = match_row.KDAR]

\* lines 610-625: one pass of the loop over the rows.  group == group is
\* false of NaN only; a group that no row is named after is printed
GroupAttributes ==
    /\ flag_pc = "attrs"
    /\ group_i < Len(WISE_Matched_df)
    /\ LET i == group_i + 1
           group == WISE_Matched_df[i].Group
       IN  IF group = NaN
           THEN UNCHANGED <<WISE_Matched_df, unresolved>>
           ELSE IF NamedRows(WISE_Matched_df, group) # {}
                THEN /\ WISE_Matched_df' =
                            [WISE_Matched_df EXCEPT ![i] = WithGroupValues(WISE_Matched_df, i)]
                     /\ UNCHANGED unresolved
                ELSE /\ unresolved' = Append(unresolved, <<i, group>>)
                     /\ UNCHANGED WISE_Matched_df
    /\ group_i' = group_i + 1
    /\ flag_pc' = IF group_i + 1 = Len(WISE_Matched_df) THEN "surveys" ELSE "attrs"
    /\ UNCHANGED <<WISE_frame, survey_k>>

\* one of the statements of lines 629-637
SurveyDetection ==
    /\ flag_pc = "surveys"
    /\ survey_k < Len(SurveyFlags)
    /\ WISE_Matched_df' =
           SetCatalog(WISE_Matched_df,
                      {i \in DOMAIN WISE_Matched_df :
                           NoRadioDetected(WISE_Matched_df, i, SurveyFlags[survey_k + 1])},
                      "observe")
    /\ survey_k' = survey_k + 1
    /\ UNCHANGED <<WISE_frame, group_i, unresolved, flag_pc>>

\* the statements over the Catalog flag have run
FlagsDone ==
    /\ flag_pc = "surveys"
    /\ survey_k = Len(SurveyFlags)
    /\ flag_pc' = "done"
    /\ UNCHANGED <<WISE_frame, WISE_Matched_df, group_i, unresolved, survey_k>>

----------------------------------------------------------------------------
(* gen_groups: hii_db/wise.py:97-159, the loop that collects the groups of *)
(* the catalog file.  The cells of the file are strings, "" when empty.    *)

\* one of the three checks of lines 135-151 on a stored value that is kept
\* whatever the row reports
FieldCheckKeepingNone(stored, val) ==
    [ok |-> TRUE, stored |-> IF val # "" THEN val ELSE stored]

\* one of the three checks of lines 135-151: an empty stored value takes the
\* value of the row; a row with another value than the stored one is refused
FieldCheck(stored, val) ==
    IF stored = ""
    THEN [ok |-> TRUE, stored |-> val]
    ELSE IF val # "" /\ stored # val
         THEN [ok |-> FALSE, stored |-> stored]
         ELSE [ok |-> TRUE, stored |-> stored]

\* lines 135-151: no check prints "different ..." and continues
Accepted(info, row) ==
    /\ FieldCheck(info[1], row.Group_VLSR).ok
    /\ FieldCheck(info[2], row.Group_e_VLSR).ok
    /\ FieldCheck(info[3], row.Group_KDAR).ok

\* lines 135-151: group_info[idx] after the checks, which run in the order
\* VLSR, e_VLSR, KDAR and stop at the first that refuses the row
InfoAfter(info, row) ==
    LET a == FieldCheck(info[1], row.Group_VLSR)
        b == FieldCheck(info[2], row.Group_e_VLSR)
        c == FieldCheck(info[3], row.Group_KDAR)
    IN  <<a.stored,
          IF a.ok THEN b.stored ELSE info[2],
          IF a.ok /\ b.ok THEN c.stored ELSE info[3]>>

\* all_groups.index(group)
IndexOf(groups, group) == CHOOSE i \in DOMAIN groups : groups[i] = group /\ \A h \in 1..(i - 1) : groups[h] # group

\* the rows of the catalog file
MaxGroupRows == 3

\* rows of group W3 with every choice of values, a row of group W4, and a
\* row that is in no group
GroupFileRows ==
    [Group : {"W3"}, Group_VLSR : {"", "10", "20"}, Group_e_VLSR : {"", "1", "2"},
     Group_KDAR : {"", "N"}]
        \cup {[Group |-> "W4", Group_VLSR |-> "10", Group_e_VLSR |-> "1", Group_KDAR |-> "N"],
              [Group |-> "", Group_VLSR |-> "", Group_e_VLSR |-> "", Group_KDAR |-> ""]}

GroupsInit ==
    /\ gg_wise \in {[i \in 1..MaxGroupRows |-> [GName |-> i] @@ f[i]] :
                       f \in [1..MaxGroupRows -> GroupFileRows]}
    /\ gg_k = 0
    /\ all_groups = <<>>
    /\ group_info = <<>>
    /\ group_members = <<>>
    /\ gg_pc = "loop"

GroupsIdle ==
    /\ gg_wise = <<>>
    /\ gg_k = 0
    /\ all_groups = <<>>
    /\ group_info = <<>>
    /\ group_members = <<>>
    /\ gg_pc = "idle"

\* the row the loop of line 125 is at
gg_w == gg_wise[gg_k + 1]

\* lines 126-127
SkipUngrouped ==
    /\ gg_pc = "loop" /\ gg_k < Len(gg_wise)
    /\ gg_w.Group = ""
    /\ gg_k' = gg_k + 1
    /\ UNCHANGED <<gg_wise, all_groups, group_info, group_members, gg_pc>>

\* lines 155-159
AddGroup ==
    /\ gg_pc = "loop" /\ gg_k < Len(gg_wise)
    /\ gg_w.Group # "" /\ gg_w.Group \notin Range(all_groups)
    /\ all_groups' = Append(all_groups, gg_w.Group)
    /\ group_info' = Append(group_info, <<gg_w.Group_VLSR, gg_w.Group_e_VLSR, gg_w.Group_KDAR>>)
    /\ group_members' = Append(group_members, <<gg_w.GName>>)
    /\ gg_k' = gg_k + 1
    /\ UNCHANGED <<gg_wise, gg_pc>>

\* lines 131-153, no check refuses the row
AddMember ==
    /\ gg_pc = "loop" /\ gg_k < Len(gg_wise)
    /\ gg_w.Group # "" /\ gg_w.Group \in Range(all_groups)
    /\ LET idx == IndexOf(all_groups, gg_w.Group)
       IN  /\ Accepted(group_info[idx], gg_w)
           /\ group_info' = [group_info EXCEPT ![idx] = InfoAfter(@, gg_w)]
           /\ group_members' = [group_members EXCEPT ![idx] = Append(@, gg_w.GName)]
    /\ gg_k' = gg_k + 1
    /\ UNCHANGED <<gg_wise, all_groups, gg_pc>>

\* lines 131-151, a check refuses the row: what the checks before it stored
\* stays stored
RefuseMember ==
    /\ gg_pc = "loop" /\ gg_k < Len(gg_wise)
    /\ gg_w.Group # "" /\ gg_w.Group \in Range(all_groups)
    /\ LET idx == IndexOf(all_groups, gg_w.Group)
       IN  /\ ~Accepted(group_info[idx], gg_w)
           /\ group_info' = [group_info EXCEPT ![idx] = InfoAfter(@, gg_w)]
    /\ gg_k' = gg_k + 1
    /\ UNCHANGED <<gg_wise, all_groups, group_members, gg_pc>>

\* the loop of line 125 is over
GroupsCollected ==
    /\ gg_pc = "loop" /\ gg_k = Len(gg_wise)
    /\ gg_pc' = "collected"
    /\ UNCHANGED <<gg_wise, gg_k, all_groups, group_info, group_members>>

----------------------------------------------------------------------------
(* match_by_name, the frame it returns: wise_stuff.py:37-83.  A row is a   *)
(* function from its column names to its cells.                            *)

\* the cell of a list (the Name_Split of line 241)
List(l) == [k |-> "list", v |-> l]

\* pd.DataFrame(rows), line 83: every row gets every column, NaN where the
\* dict of the row has no such key
DataFrame(dicts) ==
    LET columns == UNION {DOMAIN dicts[k] : k \in DOMAIN dicts}
    IN  [k \in DOMAIN dicts |->
            [c \in columns |-> IF c \in DOMAIN dicts[k] THEN dicts[k][c] ELSE NaN]]

\* df.columns
Columns(df) == UNION {DOMAIN df[k] : k \in DOMAIN df}

\* the WISE_df of line 241: Name and Name_Split of every source
SourceFrame(names) ==
    DataFrame([k \in DOMAIN names |->
                  [Name |-> IF names[k] = NaNName THEN NaN ELSE Str(names[k]),
                   Name_Split |-> List(Name_Split(names[k]))]])

\* line 60: matched_row.to_dict()
ToDict(rec) == [c \in DOMAIN rec |-> IF c = "Name" THEN Str(rec[c]) ELSE Num(rec[c])]

\* lines 70-75: the name under which a column of the record is written
NewColumn(col, column_names, extension) ==
    IF col \in column_names THEN col \o "_" \o extension ELSE col

\* lines 63-75: the columns of the row, then the columns of the record
\* under their new names, which overwrite a column of the row of that name
UpdatedRow(row, info, column_names, extension) ==
    LET new == {NewColumn(c, column_names, extension) : c \in DOMAIN info}
        renamed == [n \in new |->
                       info[CHOOSE c \in DOMAIN info : NewColumn(c, column_names, extension) = n]]
    IN  renamed @@ row

\* lines 37-83: the frames match_by_name can return
MatchByName(df, records, extension, order, ties) ==
    LET matches(k) == MatchedRowAfter(df[k].Name_Split.v, records, order, ties,
                                      Len(df[k].Name_Split.v))
    IN  {DataFrame([k \in DOMAIN df |->
                       IF m[k] = None THEN df[k]
                       ELSE UpdatedRow(df[k], ToDict(records[m[k]]), Columns(df), extension)]) :
            m \in {f \in [DOMAIN df -> {None} \cup DOMAIN records] :
                      \A k \in DOMAIN df : f[k] \in matches(k)}}

MergeIdle ==
    /\ merged_df = <<>>
    /\ first_df = <<>>
    /\ merge_n = 0

\* line 501, and the same call once more on the frame it returned
MergeAgain ==
    /\ merge_n < 2
    /\ merged_df' \in MatchByName(merged_df, matching_df, "Observed", order_by, tie_order)
    /\ first_df' = IF merge_n = 0 THEN merged_df' ELSE first_df
    /\ merge_n' = merge_n + 1

----------------------------------------------------------------------------
(* gen_groups, the tables: hii_db/wise.py:161-216.  The id of a Groups row  *)
(* is its position in the table; the id of a Catalog row is represented by *)
(* its gname.                                                              *)

\* the NULL of the database
Null == "NULL"

\* line 169: data[2].replace("(", "").replace(")", "")
WithoutParentheses(kdar) == IF kdar = "(N)" THEN "N" ELSE kdar

\* lines 164-172: the Groups row of a group
GroupsRow(group, data) ==
    [name |-> group,
     vlsr |-> IF data[1] # "" THEN data[1] ELSE Null,
     e_vlsr |-> IF data[2] # "" THEN data[2] ELSE Null,
     kdar |-> IF data[3] # "" THEN WithoutParentheses(data[3]) ELSE Null]

\* line 192: SELECT id FROM Groups WHERE name=?, the first row
GroupId(table, group) ==
    CHOOSE i \in DOMAIN table : table[i].name = group /\ \A h \in 1..(i - 1) : table[h].name # group

\* lines 188-201: the rows for CatalogGroups, group after group and member
\* after member
RECURSIVE CatalogGroupsRows(_, _, _)
CatalogGroupsRows(table, groups, members) ==
    IF groups = <<>> THEN <<>>
    ELSE CatalogGroupsRows(table, SubSeq(groups, 1, Len(groups) - 1),
                           SubSeq(members, 1, Len(members) - 1))
         \o [m \in DOMAIN members[Len(members)] |->
                [catalog |-> members[Len(members)][m],
                 group_id |-> GroupId(table, groups[Len(groups)])]]

\* rows of group W3 with a velocity or none and a distance resolution in
\* parentheses or none, a row of group W4, and a row that is in no group
GroupTableRows ==
    [Group : {"W3"}, Group_VLSR : {"", "10", "20"}, Group_e_VLSR : {"1"},
     Group_KDAR : {"", "(N)"}]
        \cup {[Group |-> "W4", Group_VLSR |-> "10", Group_e_VLSR |-> "1", Group_KDAR |-> "N"],
              [Group |-> "", Group_VLSR |-> "", Group_e_VLSR |-> "", Group_KDAR |-> ""]}

\* the Catalog table holds the gnames of all the rows of the catalog file,
\* or (a database filled from another file) of all but the first
GroupTablesInit ==
    /\ gg_wise \in {[i \in 1..MaxGroupRows |-> [GName |-> i] @@ f[i]] :
                       f \in [1..MaxGroupRows -> GroupTableRows]}
    /\ gg_k = 0
    /\ all_groups = <<>>
    /\ group_info = <<>>
    /\ group_members = <<>>
    /\ gg_pc = "loop"
    /\ gg_Catalog \in {1..MaxGroupRows, 2..MaxGroupRows}
    /\ Groups = <<>>
    /\ CatalogGroups = <<>>

GroupTablesIdle ==
    /\ gg_Catalog = {}
    /\ Groups = <<>>
    /\ CatalogGroups = <<>>

\* lines 161-180
PopulateGroups ==
    /\ gg_pc = "collected"
    /\ Groups' = [i \in DOMAIN all_groups |-> GroupsRow(all_groups[i], group_info[i])]
    /\ gg_pc' = "populated"
    /\ UNCHANGED <<gg_wise, gg_k, all_groups, group_info, group_members, gg_Catalog, CatalogGroups>>

\* line 200: fetchall()[0][0] raises IndexError for a member whose GName is
\* no gname of Catalog; the Groups rows stay and no CatalogGroups row is
\* inserted
GroupsIndexError ==
    /\ gg_pc = "populated"
    /\ \E i \in DOMAIN group_members : \E m \in DOMAIN group_members[i] :
           group_members[i][m] \notin gg_Catalog
    /\ gg_pc' = "IndexError"
    /\ UNCHANGED <<gg_wise, gg_k, all_groups, group_info, group_members, gg_Catalog, Groups, CatalogGroups>>

\* lines 186-214
MatchGroups ==
    /\ gg_pc = "populated"
    /\ \A i \in DOMAIN group_members : \A m \in DOMAIN group_members[i] :
           group_members[i][m] \in gg_Catalog
    /\ CatalogGroups' = CatalogGroupsRows(Groups, all_groups, group_members)
    /\ gg_pc' = "done"
    /\ UNCHANGED <<gg_wise, gg_k, all_groups, group_info, group_members, gg_Catalog, Groups>>

----------------------------------------------------------------------------
(* add_region: wise_stuff.py:159-168, on the RRL_Surveys_df of line 325.   *)
(* A row of the frame has its label (its index value) beside its columns.  *)
(* The transform from galactic to equatorial coordinates is astropy's; a    *)
(* right ascension or declination is represented by the position it is the *)
(* transform of.  The GName column (line 168) is not modelled.             *)

\* icrs_coord.ra.value and icrs_coord.dec.value of a galactic position
RightAscension(l, b) == <<"ra", l, b>>
Declination(l, b) == <<"dec", l, b>>

\* line 161, df.loc[label] = kwargs: the row of that label takes the values
\* of kwargs and NaN in its other columns; a frame without a row of that
\* label gets one, at its end
SetRow(df, label, kwargs) ==
    LET row == [label |-> label, Name |-> kwargs.Name, GLong |-> kwargs.GLong,
                GLat |-> kwargs.GLat, VLSR |-> kwargs.VLSR, RA |-> NaN, Dec |-> NaN]
    IN  IF \E k \in DOMAIN df : df[k].label = label
        THEN [k \in DOMAIN df |-> IF df[k].label = label THEN row ELSE df[k]]
        ELSE Append(df, row)

\* lines 164-167: the transform of the position of kwargs is one value, and
\* the assignment gives it to the column, that is to every row
SetCoordinates(df, kwargs) ==
    [k \in DOMAIN df |-> [df[k] EXCEPT !.RA = RightAscension(kwargs.GLong, kwargs.GLat),
                                       !.Dec = Declination(kwargs.GLong, kwargs.GLat)]]

add_region(df, kwargs) == SetCoordinates(SetRow(df, Len(df), kwargs), kwargs)

\* the rows of the frame and the calls of add_region
MaxRegionRows == 2
MaxRegions == 2

\* the first and the last region of lines 348-446: positions in thousandths
\* of a degree, velocities to the km/s
Regions ==
    {[Name |-> <<"R", "1">>, GLong |-> 394, GLat |-> -540, VLSR |-> 24],
     [Name |-> <<"R", "2">>, GLong |-> 358844, GLat |-> 26, VLSR |-> -209]}

\* the records the de-duplication left, with the equatorial coordinates of
\* their positions
RegionRecords ==
    {[Name |-> <<"A">>, GLong |-> p.GLong, GLat |-> p.GLat, VLSR |-> v,
      RA |-> RightAscension(p.GLong, p.GLat), Dec |-> Declination(p.GLong, p.GLat)] :
        p \in RRLPositions, v \in {SurveyVLSR(2005), SurveyVLSR(2015)}}

\* lines 309-325: the frame has the labels 0 .. n-1 of reset_index less those
\* of the rows that drop_duplicates removed, in the order of the last sort
RegionsInit ==
    /\ regions_df \in
           UNION {{[k \in 1..m |-> [label |-> l[k]] @@ f[k]] :
                      l \in {x \in [1..m -> 0..m] : \A i, j \in 1..m : x[i] = x[j] => i = j},
                      f \in [1..m -> RegionRecords]} : m \in 1..MaxRegionRows}
    /\ added = <<>>

RegionsIdle ==
    /\ regions_df = <<>>
    /\ added = <<>>

\* one of the calls of lines 346-446
AddRegion ==
    /\ Len(added) < MaxRegions
    /\ \E kwargs \in Regions :
           /\ regions_df' = add_region(regions_df, kwargs)
           /\ added' = Append(added, kwargs)

----------------------------------------------------------------------------
(* make_df: wise_stuff.py:141-156, called at lines 452-492.  A row of a    *)
(* pickled frame is the record it holds, the columns in which it has a     *)
(* value, and whether those values still carry astropy units.              *)

MaxFiles == 3

\* the names a directory can list, and the columns of the pickled frames
FileNames == {"a.pkl", "b.pkl", "a_2.pkl", "a.txt"}
FileColumns == {"Name", "VLSR", "Notes"}

\* filename.endswith(suffix)
EndsWith(filename, suffix) ==
    /\ Len(filename) >= Len(suffix)
    /\ SubSeq(filename, Len(filename) - Len(suffix) + 1, Len(filename)) = suffix

\* line 144
Qualifies(filename) == EndsWith(filename, ".pkl") /\ ~EndsWith(filename, "_2.pkl")

\* pd.read_pickle(file_path): a.pkl holds two records and the others one
read_pickle(filename) ==
    [k \in 1..(IF filename = "a.pkl" THEN 2 ELSE 1) |->
        [record |-> <<filename, k>>, columns |-> FileColumns, units |-> TRUE]]

\* line 152: the values without their units
StripUnits(df) == [k \in DOMAIN df |-> [df[k] EXCEPT !.units = FALSE]]

\* line 154, df[columns]
Filtered(df, columns) == [k \in DOMAIN df |-> [df[k] EXCEPT !.columns = @ \cap columns]]

\* os.listdir(dir) lists distinct names in an order that is not specified
MakeDfInit ==
    /\ listdir \in {l \in SeqsUpTo(FileNames, MaxFiles) :
                       \A i, j \in DOMAIN l : l[i] = l[j] => i = j}
    /\ md_columns \in {{"Name", "VLSR"}, {"Name"}}
    /\ md_k = 1
    /\ md_df = NoValue
    /\ md_pc = "loop"

MakeDfIdle ==
    /\ listdir = <<>>
    /\ md_columns = {}
    /\ md_k = 1
    /\ md_df = NoValue
    /\ md_pc = "idle"

\* line 144 false: the file is passed over
PassOver ==
    /\ md_pc = "loop"
    /\ md_k <= Len(listdir)
    /\ ~Qualifies(listdir[md_k])
    /\ md_k' = md_k + 1
    /\ UNCHANGED <<listdir, md_columns, md_df, md_pc>>

\* lines 149-155: df is the frame of this file, then that frame with its
\* filtered copy after it
LoadFile ==
    /\ md_pc = "loop"
    /\ md_k <= Len(listdir)
    /\ Qualifies(listdir[md_k])
    /\ LET df == StripUnits(read_pickle(listdir[md_k]))
       IN  md_df' = List(df \o Filtered(df, md_columns))
    /\ md_k' = md_k + 1
    /\ UNCHANGED <<listdir, md_columns, md_pc>>

\* line 156 with df bound
ReturnFrame ==
    /\ md_pc = "loop"
    /\ md_k > Len(listdir)
    /\ md_df # NoValue
    /\ md_pc' = "returned"
    /\ UNCHANGED <<listdir, md_columns, md_k, md_df>>

\* line 156 when no file qualified: df was never assigned
UnboundLocal ==
    /\ md_pc = "loop"
    /\ md_k > Len(listdir)
    /\ md_df = NoValue
    /\ md_pc' = "UnboundLocalError"
    /\ UNCHANGED <<listdir, md_columns, md_k, md_df>>

----------------------------------------------------------------------------
(* match_by_distance: wise_stuff.py:85-139, called at lines 528 and 535.   *)
(* Positions and sizes are whole multiples of 10 arcsec, the third of the  *)
(* size of the two calls.  The function reads two frames of sources: its   *)
(* argument WISE_df and the global WISE_Matched_df of the module.          *)

\* 10 arcsec units in a degree, and size = 30./3600 degree in these units
UnitsPerDegree == 360
SizeOfCalls == 3

\* lines 100-103, the square of the number under np.sqrt, in units squared:
\* (GLong_w - GLong_m)**2 + (GLat_w - GLat_m**2) in degrees, where only the
\* latitude of the record is squared, times UnitsPerDegree squared
DistanceSquared(src, m) ==
    (src.GLong - m.GLong) * (src.GLong - m.GLong) + (UnitsPerDegree * src.GLat - m.GLat * m.GLat)

\* lines 100-106, wh[i, j]: np.sqrt of a negative number is NaN, and NaN is
\* not less than size
WithinSize(src, m, size) ==
    /\ DistanceSquared(src, m) >= 0
    /\ DistanceSquared(src, m) < size * size

\* line 114, np.where(wh[i, :])[0]
MatchedIndices(sources, df, i, size) ==
    {j \in DOMAIN df : WithinSize(sources[i], df[j], size)}

\* lines 116-123: the rows that can be matched_row, the first of the rows
\* sorted by order_by descending, or the first match in input order
NearRows(df, indices, order, ties) ==
    IF order = "Year" THEN SortedFirst(df, indices, ties) ELSE FirstRow(indices)

\* line 130
NewColumnName(col, extension) ==
    IF extension # "" THEN col \o "_" \o extension ELSE col

\* lines 126-132: the row of the source with the columns of the record
\* under their new names
MatchedRowInfo(row, matched_row, extension) ==
    LET new == {NewColumnName(c, extension) : c \in DOMAIN matched_row}
        renamed == [n \in new |->
                       matched_row[CHOOSE c \in DOMAIN matched_row :
                                       NewColumnName(c, extension) = n]]
    IN  renamed @@ row

MaxNearSources == 2
MaxNearRecords == 2

NearSources ==
    {[Name |-> <<"W", p[1], p[2]>>, GLong |-> p[1], GLat |-> p[2]] :
        p \in {<<0, 0>>, <<0, 1>>}}
NearRecords ==
    {[GLong |-> p[1], GLat |-> p[2], Year |-> y] :
        p \in {<<0, 0>>, <<0, 1>>, <<3, 1>>}, y \in RecordYears}

\* the arguments of a call and the global frame at the time of the call; at
\* lines 528 and 535 the argument is the global frame
DistanceInit ==
    /\ near_WISE_df \in SeqsUpTo(NearSources, MaxNearSources) \ {<<>>}
    /\ near_WISE_Matched_df \in SeqsUpTo(NearSources, MaxNearSources) \ {<<>>}
    /\ near_matching_df \in SeqsUpTo(NearRecords, MaxNearRecords) \ {<<>>}
    /\ near_size \in {0, SizeOfCalls}
    /\ near_extension \in {"", "Molecular"}
    /\ near_order_by \in {"Year", "None"}
    /\ near_i = 1
    /\ near_rows = <<>>
    /\ near_pc = "loop"

DistanceIdle ==
    /\ near_WISE_df = <<>>
    /\ near_WISE_Matched_df = <<>>
    /\ near_matching_df = <<>>
    /\ near_size = 0
    /\ near_extension = ""
    /\ near_order_by = "None"
    /\ near_i = 1
    /\ near_rows = <<>>
    /\ near_pc = "idle"

nearArgs == <<near_WISE_df, near_WISE_Matched_df, near_matching_df, near_size,
              near_extension, near_order_by>>

\* line 110, wh[i, :], for a row of WISE_df past the last row of the global
\* frame
NearIndexError ==
    /\ near_pc = "loop"
    /\ near_i <= Len(near_WISE_df)
    /\ near_i > Len(near_WISE_Matched_df)
    /\ near_pc' = "IndexError"
    /\ UNCHANGED <<nearArgs, near_i, near_rows>>

\* lines 111-132: a record matches, and the row of the global frame gets its
\* columns
AttachRecord ==
    /\ near_pc = "loop"
    /\ near_i <= Len(near_WISE_df)
    /\ near_i <= Len(near_WISE_Matched_df)
    /\ LET indices == MatchedIndices(near_WISE_Matched_df, near_matching_df, near_i, near_size)
       IN  \E j \in NearRows(near_matching_df, indices, near_order_by, tie_order) :
               near_rows' = Append(near_rows,
                                   MatchedRowInfo(near_WISE_Matched_df[near_i],
                                                  near_matching_df[j], near_extension))
    /\ near_i' = near_i + 1
    /\ UNCHANGED <<nearArgs, near_pc>>

\* lines 133-136: no record matches, and the row of WISE_df is kept
KeepRow ==
    /\ near_pc = "loop"
    /\ near_i <= Len(near_WISE_df)
    /\ near_i <= Len(near_WISE_Matched_df)
    /\ MatchedIndices(near_WISE_Matched_df, near_matching_df, near_i, near_size) = {}
    /\ near_rows' = Append(near_rows, near_WISE_df[near_i])
    /\ near_i' = near_i + 1
    /\ UNCHANGED <<nearArgs, near_pc>>

\* line 138
NearReturn ==
    /\ near_pc = "loop"
    /\ near_i > Len(near_WISE_df)
    /\ near_pc' = "returned"
    /\ UNCHANGED <<nearArgs, near_i, near_rows>>

----------------------------------------------------------------------------
(* Specifications *)

InitGName == tie_order = "input" /\ GNameInit /\ NameIdle /\ ListsIdle /\ DetIdle /\ RRLIdle /\ FlagsIdle /\ GroupsIdle /\ GroupTablesIdle /\ MergeIdle /\ RegionsIdle /\ MakeDfIdle /\ DistanceIdle
NextGName == GenerateGName /\ UNCHANGED notGName
SpecGName == InitGName /\ [][NextGName]_vars

InitName == NameInit /\ GNameIdle /\ ListsIdle /\ DetIdle /\ RRLIdle /\ FlagsIdle /\ GroupsIdle /\ GroupTablesIdle /\ MergeIdle /\ RegionsIdle /\ MakeDfIdle /\ DistanceIdle
NextName ==
    \/ MatchRow /\ UNCHANGED notName
    \/ MatchReturn /\ UNCHANGED notName
SpecName == InitName /\ [][NextName]_vars

InitLists == tie_order = "input" /\ ListsInit /\ GNameIdle /\ NameIdle /\ DetIdle /\ RRLIdle /\ FlagsIdle /\ GroupsIdle /\ GroupTablesIdle /\ MergeIdle /\ RegionsIdle /\ MakeDfIdle /\ DistanceIdle
NextLists ==
    \/ FindClosest /\ UNCHANGED notLists
    \/ ResolveTies /\ UNCHANGED notLists
    \/ ReturnClosest /\ UNCHANGED notLists
SpecLists == InitLists /\ [][NextLists]_vars

NextDet ==
    \/ SkipNonDetection /\ UNCHANGED notDet
    \/ RaiseValueError /\ UNCHANGED notDet
    \/ ReportMismatch /\ UNCHANGED notDet
    \/ AppendComponents /\ UNCHANGED notDet
    \/ PopulateDetections /\ UNCHANGED notDet
    \/ RaiseIndexError /\ UNCHANGED notDet
    \/ MatchDetections /\ UNCHANGED notDet

\* add_detections on batches of catalog rows
InitDet == DetInit(Files(BatchRows, MaxRows)) /\ GNameIdle /\ NameIdle /\ ListsIdle /\ RRLIdle /\ FlagsIdle /\ GroupsIdle /\ GroupTablesIdle /\ MergeIdle /\ RegionsIdle /\ MakeDfIdle /\ DistanceIdle
SpecDet == InitDet /\ [][NextDet]_vars

\* add_detections on one catalog row
InitSplit == DetInit(Files(WellFormedRows \cup BatchRows, 1) \ {<<>>}) /\ GNameIdle /\ NameIdle /\ ListsIdle /\ RRLIdle /\ FlagsIdle /\ GroupsIdle /\ GroupTablesIdle /\ MergeIdle /\ RegionsIdle /\ MakeDfIdle /\ DistanceIdle
SpecSplit == InitSplit /\ [][NextDet]_vars

NextRRL ==
    \/ DropPositionDuplicates /\ UNCHANGED notRRL
    \/ DropNameDuplicates /\ UNCHANGED notRRL
    \/ MatchObserved /\ UNCHANGED notRRL

\* the de-duplication of the survey records and their match to a source
InitRRL ==
    tie_order = "input" /\ RRLInit /\ GNameIdle /\ NameIdle /\ ListsIdle /\ DetIdle /\ FlagsIdle /\ GroupsIdle /\ GroupTablesIdle /\ MergeIdle /\ RegionsIdle /\ MakeDfIdle /\ DistanceIdle
SpecRRL == InitRRL /\ [][NextRRL]_vars

NextFlags ==
    \/ FixGroups /\ UNCHANGED notFlags
    \/ MatchTables /\ UNCHANGED notFlags
    \/ RadioContinuum /\ UNCHANGED notFlags
    \/ RadioKeyError /\ UNCHANGED notFlags
    \/ SetGroupCatalog /\ UNCHANGED notFlags
    \/ GroupAttributes /\ UNCHANGED notFlags
    \/ SurveyDetection /\ UNCHANGED notFlags
    \/ FlagsDone /\ UNCHANGED notFlags

\* the passes over the Catalog flag, in the order of the script
InitFlags ==
    tie_order = "input" /\ FlagsInit /\ GNameIdle /\ NameIdle /\ ListsIdle /\ DetIdle /\ RRLIdle /\ GroupsIdle /\ GroupTablesIdle /\ MergeIdle /\ RegionsIdle /\ MakeDfIdle /\ DistanceIdle
SpecFlags == InitFlags /\ [][NextFlags]_vars

\* the same passes over sources in resolved and unresolved groups
InitGroupFlags ==
    /\ tie_order = "input" /\ FlagsInitOf(GroupFlagRows)
    /\ GNameIdle /\ NameIdle /\ ListsIdle /\ DetIdle /\ RRLIdle /\ GroupsIdle /\ GroupTablesIdle /\ MergeIdle /\ RegionsIdle /\ MakeDfIdle /\ DistanceIdle
SpecGroupFlags == InitGroupFlags /\ [][NextFlags]_vars

\* the same passes over sources that differ in names, groups and values
InitGroupAttrs ==
    /\ tie_order = "input" /\ FlagsInitOf(GroupRows)
    /\ GNameIdle /\ NameIdle /\ ListsIdle /\ DetIdle /\ RRLIdle /\ GroupsIdle /\ GroupTablesIdle /\ MergeIdle /\ RegionsIdle /\ MakeDfIdle /\ DistanceIdle
SpecGroupAttrs == InitGroupAttrs /\ [][NextFlags]_vars

NextGroups ==
    \/ SkipUngrouped /\ UNCHANGED notGroups
    \/ AddGroup /\ UNCHANGED notGroups
    \/ AddMember /\ UNCHANGED notGroups
    \/ RefuseMember /\ UNCHANGED notGroups
    \/ GroupsCollected /\ UNCHANGED notGroups

\* gen_groups on the catalog files of MaxGroupRows rows
InitGroups ==
    /\ tie_order = "input" /\ GroupsInit /\ GroupTablesIdle
    /\ GNameIdle /\ NameIdle /\ ListsIdle /\ DetIdle /\ RRLIdle /\ FlagsIdle /\ MergeIdle /\ RegionsIdle /\ MakeDfIdle /\ DistanceIdle
SpecGroups == InitGroups /\ [][NextGroups]_vars

\* survey records that carry a measured value beside Name and Year
RecordVLSRs == {10, 20}
MeasuredRecords == [Name : RecordNames, Year : RecordYears, VLSR : RecordVLSRs]

\* match_by_name with order_by a column, on records that can share Name and
\* Year and differ in what they measured
InitMeasured ==
    /\ tie_order \in TieOrders
    /\ WISE_df \in SeqsUpTo(SourceNames, MaxSources) \ {<<>>}
    /\ matching_df \in SeqsUpTo(MeasuredRecords, MaxRecords)
    /\ order_by = "Year"
    /\ matched_rows = <<>>
    /\ mbn_pc = "loop"
    /\ GNameIdle /\ ListsIdle /\ DetIdle /\ RRLIdle /\ FlagsIdle /\ GroupsIdle /\ GroupTablesIdle /\ MergeIdle /\ RegionsIdle /\ MakeDfIdle /\ DistanceIdle
SpecMeasured == InitMeasured /\ [][NextName]_vars

\* match_by_name applied to the sources and then to its own output
InitMerge ==
    /\ tie_order \in TieOrders
    /\ WISE_df \in SeqsUpTo(SourceNames, MaxSources) \ {<<>>}
    /\ matching_df \in SeqsUpTo(MeasuredRecords, MaxRecords)
    /\ order_by = "Year"
    /\ matched_rows = <<>>
    /\ mbn_pc = "idle"
    /\ merged_df = SourceFrame(WISE_df)
    /\ first_df = <<>>
    /\ merge_n = 0
    /\ GNameIdle /\ ListsIdle /\ DetIdle /\ RRLIdle /\ FlagsIdle /\ GroupsIdle /\ GroupTablesIdle /\ RegionsIdle /\ MakeDfIdle /\ DistanceIdle
NextMerge == MergeAgain /\ UNCHANGED notMerge
SpecMerge == InitMerge /\ [][NextMerge]_vars

\* survey records whose velocity does not follow from the year of the survey
SurveyVLSRs == {200, 550}
LoadedRecords ==
    {[Name |-> n, GLong |-> p.GLong, GLat |-> p.GLat, TL |-> tl, Year |-> y,
      VLSR |-> v, VLSR2 |-> NaN] :
        n \in RRLNames, p \in RRLPositions, tl \in RRLLines, y \in RecordYears,
        v \in SurveyVLSRs}

\* the de-duplication on the records of the survey files in the order
\* os.listdir gave them
InitLoad ==
    /\ tie_order = "input"
    /\ rrl_loaded \in SeqsUpTo(LoadedRecords, MaxRRL)
    /\ RRL_Surveys_df = rrl_loaded
    /\ rrl_source \in RRLSources
    /\ Observed = None
    /\ rrl_pc = "loaded"
    /\ GNameIdle /\ NameIdle /\ ListsIdle /\ DetIdle /\ FlagsIdle /\ GroupsIdle /\ GroupTablesIdle /\ MergeIdle /\ RegionsIdle /\ MakeDfIdle /\ DistanceIdle
SpecLoad == InitLoad /\ [][NextRRL]_vars

\* generate_gname on the valid positions and on positions just outside the
\* ranges of longitude and latitude
GLongAny == GLongInputs \cup {-1, 360 * Milli * SubMilli, 360 * Milli * SubMilli + 1}
GLatAny == GLatInputs \cup {-90 * Milli * SubMilli - 1, 90 * Milli * SubMilli + 1}

InitGNameAny ==
    /\ tie_order = "input"
    /\ glong \in GLongAny
    /\ glat \in GLatAny
    /\ GName = <<>>
    /\ gn_pc = "call"
    /\ NameIdle /\ ListsIdle /\ DetIdle /\ RRLIdle /\ FlagsIdle /\ GroupsIdle /\ GroupTablesIdle /\ MergeIdle /\ RegionsIdle /\ MakeDfIdle /\ DistanceIdle
SpecGNameAny == InitGNameAny /\ [][NextGName]_vars

\* the rows of a catalog file of sources without radio emission
MaxDetectionRows == 3

\* rows of no_radio sources outside groups, with no survey detection or with
\* a detection in one of the surveys
DetectionRows ==
    {[Catalog |-> "no_radio", Group_Flag |-> 0, Radio_Continuum |-> r, Surveys |-> s] @@ g :
        r \in BOOLEAN,
        s \in {{}} \cup {{SurveyFlags[k]} : k \in DOMAIN SurveyFlags},
        g \in GroupColumns({Str("A")}, {NaN}, {[VLSR |-> Num(10), e_VLSR |-> Num(1), KDAR |-> Str("N")]})}

\* the passes over the Catalog flag on sources with radio detections of
\* every kind
InitDetected ==
    /\ tie_order = "input"
    /\ WISE_frame \in SeqsUpTo(DetectionRows, MaxDetectionRows) \ {<<>>}
    /\ WISE_Matched_df = <<>>
    /\ group_i = 0
    /\ unresolved = <<>>
    /\ survey_k = 0
    /\ flag_pc = "read"
    /\ GNameIdle /\ NameIdle /\ ListsIdle /\ DetIdle /\ RRLIdle /\ GroupsIdle /\ GroupTablesIdle /\ MergeIdle /\ RegionsIdle /\ MakeDfIdle /\ DistanceIdle
SpecDetected == InitDetected /\ [][NextFlags]_vars

NextGroupTables ==
    \/ SkipUngrouped /\ UNCHANGED notGroups
    \/ AddGroup /\ UNCHANGED notGroups
    \/ AddMember /\ UNCHANGED notGroups
    \/ RefuseMember /\ UNCHANGED notGroups
    \/ GroupsCollected /\ UNCHANGED notGroups
    \/ PopulateGroups /\ UNCHANGED notGroupTables
    \/ GroupsIndexError /\ UNCHANGED notGroupTables
    \/ MatchGroups /\ UNCHANGED notGroupTables

\* gen_groups with its tables
InitGroupTables ==
    /\ tie_order = "input" /\ GroupTablesInit
    /\ GNameIdle /\ NameIdle /\ ListsIdle /\ DetIdle /\ RRLIdle /\ FlagsIdle /\ MergeIdle /\ RegionsIdle /\ MakeDfIdle /\ DistanceIdle
SpecGroupTables == InitGroupTables /\ [][NextGroupTables]_vars

NextRegions == AddRegion /\ UNCHANGED notRegions

\* the calls of add_region on the de-duplicated survey records
InitRegions ==
    /\ tie_order = "input" /\ RegionsInit
    /\ GNameIdle /\ NameIdle /\ ListsIdle /\ DetIdle /\ RRLIdle /\ FlagsIdle /\ GroupsIdle /\ GroupTablesIdle /\ MergeIdle /\ MakeDfIdle /\ DistanceIdle
SpecRegions == InitRegions /\ [][NextRegions]_vars

NextMakeDf ==
    \/ PassOver /\ UNCHANGED notMakeDf
    \/ LoadFile /\ UNCHANGED notMakeDf
    \/ ReturnFrame /\ UNCHANGED notMakeDf
    \/ UnboundLocal /\ UNCHANGED notMakeDf

\* make_df on a directory of pickled frames
InitMakeDf ==
    /\ tie_order = "input" /\ MakeDfInit
    /\ GNameIdle /\ NameIdle /\ ListsIdle /\ DetIdle /\ RRLIdle /\ FlagsIdle /\ GroupsIdle /\ GroupTablesIdle /\ MergeIdle /\ RegionsIdle /\ DistanceIdle
SpecMakeDf == InitMakeDf /\ [][NextMakeDf]_vars

NextDistance ==
    \/ NearIndexError /\ UNCHANGED notDistance
    \/ AttachRecord /\ UNCHANGED notDistance
    \/ KeepRow /\ UNCHANGED notDistance
    \/ NearReturn /\ UNCHANGED notDistance

\* match_by_distance on the sources of its argument and of the global frame
InitDistance ==
    /\ tie_order \in TieOrders /\ DistanceInit
    /\ GNameIdle /\ NameIdle /\ ListsIdle /\ DetIdle /\ RRLIdle /\ FlagsIdle /\ GroupsIdle /\ GroupTablesIdle /\ MergeIdle /\ RegionsIdle /\ MakeDfIdle
SpecDistance == InitDistance /\ [][NextDistance]_vars

----------------------------------------------------------------------------
(* Claims about generate_gname *)

\* a coordinate of t millidegrees (t >= 0) as three integer digits, point, three decimals
Fixed33(t) ==
    <<Digit((t \div 100000) % 10), Digit((t \div 10000) % 10), Digit((t \div 1000) % 10), ".",
      Digit((t \div 100) % 10), Digit((t \div 10) % 10), Digit(t % 10)>>

\* a latitude of magnitude t millidegrees as sign, two integer digits, point, three decimals
Signed23(neg, t) ==
    <<IF neg THEN "-" ELSE "+",
      Digit((t \div 10000) % 10), Digit((t \div 1000) % 10), ".",
      Digit((t \div 100) % 10), Digit((t \div 10) % 10), Digit(t % 10)>>

\* the digits beyond the third decimal dropped, on either side of zero
TruncMilli(x) == Abs(x) \div SubMilli

\* C1: for every valid position generate_gname returns "G", the longitude
\* truncated to three decimals in 7 characters, and the latitude truncated to
\* three decimals, its digits beyond the third dropped for negative latitudes
\* as for positive ones, with an explicit sign in 7 characters.
C1_TruncatedName ==
    gn_pc = "done" =>
        GName = <<"G">> \o Fixed33(TruncMilli(glong)) \o Signed23(glat < 0, TruncMilli(glat))

----------------------------------------------------------------------------
(* Claims about match_by_name *)

\* the records whose Name equals any alias of the source
AnyAliasRows(df, split) == {k \in DOMAIN df : df[k].Name \in Range(split)}

\* the first in input order of the records of rs with the highest Year
BestRow(df, rs) ==
    CHOOSE k \in rs :
        /\ \A j \in rs : df[j].Year <= df[k].Year
        /\ \A j \in rs : df[j].Year = df[k].Year => k <= j

\* C2: with order_by = Year, the record attached to a source is the one with
\* the highest Year among all the records whose Name equals any alias of the
\* source, and among those of equal Year the first in input order.
C2_BestAcrossAliases ==
    \A i \in DOMAIN matched_rows :
        LET rs == AnyAliasRows(matching_df, Name_Split(matched_rows[i].Name))
        IN  (order_by = "Year" /\ rs # {}) =>
                matched_rows[i].matched_row = BestRow(matching_df, rs)

----------------------------------------------------------------------------
(* Claims about match_lists *)

\* the indices of the first-set points nearest to second-set point j
NearestIndices(j) ==
    {i - 1 : i \in {k \in DOMAIN points1 : Dist2(points1, points2, k, j) = MinDist2(points1, points2, j)}}

\* C3: for every point j of the second set the result is the index of a
\* nearest point of the first set when the least distance is <= max_r[j], and
\* -1 when it is > max_r[j], for scalar and per-point max_r, with or without
\* velocity arrays.
C3_NearestWithinRadius ==
    ml_pc = "done" =>
        \A j \in DOMAIN points2 :
            LET r == RadiusArray(Len(points2), max_r)[j]
            IN  IF MinDist2(points1, points2, j) <= r * r
                THEN closest[j] \in NearestIndices(j)
                ELSE closest[j] = Unmatched

\* C4: when two or more first-set points are equidistant-nearest to point j
\* and both velocity arrays are supplied, the result for j is one of those
\* nearest points, one whose velocity is closest to z2[j] among them.
C4_TieByVelocity ==
    (ml_pc = "done" /\ z1 # NoArray /\ z2 # NoArray) =>
        \A j \in DOMAIN points2 :
            Cardinality(NearestIndices(j)) > 1 =>
                /\ closest[j] \in NearestIndices(j)
                /\ \A i \in NearestIndices(j) :
                       Abs(z1[closest[j] + 1] - z2[j]) <= Abs(z1[i + 1] - z2[j])

----------------------------------------------------------------------------
(* Claims about add_detections *)

\* the rows of a table that bear a name, in table order
Named(tbl, g) == SelectSeq(tbl, LAMBDA d : d.name = g)

AllNumbers(field) == \A i \in DOMAIN field : field[i].k = "num"

\* a well-formed catalog row: VLSR and FWHM are lists of numbers of the same
\* length, and each of the other fields is empty or such a list
WellFormed(r) ==
    /\ Len(r.VLSR) >= 1 /\ AllNumbers(r.VLSR)
    /\ Len(r.FWHM) = Len(r.VLSR) /\ AllNumbers(r.FWHM)
    /\ \A f \in {r.e_VLSR, r.e_FWHM, r.T_L, r.e_T_L} :
           f = <<>> \/ (Len(f) = Len(r.VLSR) /\ AllNumbers(f))

\* a row whose fields are lists of numbers, not all of the length of VLSR
Mismatched(r) ==
    /\ Len(r.VLSR) >= 1 /\ AllNumbers(r.VLSR)
    /\ Len(r.FWHM) >= 1 /\ AllNumbers(r.FWHM)
    /\ \A f \in {r.e_VLSR, r.e_FWHM, r.T_L, r.e_T_L} : AllNumbers(f)
    /\ \/ Len(r.FWHM) # Len(r.VLSR)
       \/ \E f \in {r.e_VLSR, r.e_FWHM, r.T_L, r.e_T_L} : f # <<>> /\ Len(f) # Len(r.VLSR)

\* what stands at position i of a field of the input; an empty field has
\* not-a-number at every position
InputAt(field, i) == IF field = <<>> THEN NaN ELSE field[i]

\* the labels of n components
Labelled(D, n) ==
    /\ n = 1 => D[1].component = NoComponent
    /\ n > 1 => \A i \in 1..n : D[i].component = comps[i]

\* line temperatures never decrease along D
NonDecreasing(D) ==
    \A i \in 1..(Len(D) - 1) :
        ~(D[i].line.k = "num" /\ D[i + 1].line.k = "num" /\ D[i + 1].line.v < D[i].line.v)

TakenFrom(d, r, j) ==
    LET cas == IsCaswell(r.Author)
        tl == InputAt(r.T_L, j)
    IN  /\ d.vlsr = r.VLSR[j]
        /\ d.fwhm = r.FWHM[j]
        /\ d.line = IF cas /\ tl.k = "num" THEN Num(1000 * tl.v) ELSE tl
        /\ d.e_line = IF cas THEN Num(100) ELSE InputAt(r.e_T_L, j)
        /\ d.e_vlsr = IF cas THEN Num(25) ELSE InputAt(r.e_VLSR, j)
        /\ d.e_fwhm = IF cas THEN Num(15) ELSE InputAt(r.e_FWHM, j)

C7_MismatchSkipsOnlyTheRow ==
    \A k \in 1..wiseidx :
        Mismatched(wise[k]) =>
            /\ \E i \in DOMAIN reported : reported[i] = wise[k].GName
            /\ Named(rows, wise[k].GName) = <<>>
            /\ Named(Detections, wise[k].GName) = <<>>
            /\ \A j \in 1..wiseidx :
                   WellFormed(wise[j]) =>
                       /\ Len(Named(rows, wise[j].GName)) = Len(wise[j].VLSR)
                       /\ det_pc \in {"match", "done"} =>
                              Len(Named(Detections, wise[j].GName)) = Len(wise[j].VLSR)

\* a mismatched row has been reported and the row after it is in the table
C7_Witness ==
    /\ det_pc = "done"
    /\ Len(wise) = 2
    /\ Mismatched(wise[1]) /\ WellFormed(wise[2])
    /\ reported = <<wise[1].GName>>
    /\ Len(Detections) = Len(wise[2].VLSR)

\* C8: no malformed row aborts add_detections: it never ends in an
\* exception, and when it ends every well-formed row has its Detections rows
\* and a CatalogDetections row for each of them.
C8_NoRowAbortsBatch ==
    /\ det_pc # "raised"
    /\ det_pc = "done" =>
           \A k \in 1..Len(wise) :
               WellFormed(wise[k]) =>
                   /\ Len(Named(Detections, wise[k].GName)) = Len(wise[k].VLSR)
                   /\ \A i \in DOMAIN Detections :
                          \E c \in DOMAIN CatalogDetections :
                              CatalogDetections[c].detection_id = Detections[i].id

----------------------------------------------------------------------------
(* Claims about the de-duplication of the survey records *)

\* two records that denote the same source
SameSource(a, b) == SameName(a, b) \/ SamePosition(a, b)

\* the measurement of record r is in a row of df (under whatever Name)
SameRecord(a, b) ==
    /\ SamePosition(a, b)
    /\ a.TL = b.TL /\ a.Year = b.Year /\ a.VLSR = b.VLSR

Survives(r) == \E k \in DOMAIN RRL_Surveys_df : SameRecord(RRL_Surveys_df[k], r)

\* C9: of two loaded records that denote the same source (same Name, or same
\* position) and differ in Year, the earlier one does not survive the
\* de-duplication and is not the record attached to the catalog source,
\* whatever the load order and the line temperatures.
C9_LaterYearSurvives ==
    \A i, j \in DOMAIN rrl_loaded :
        (SameSource(rrl_loaded[i], rrl_loaded[j]) /\ rrl_loaded[i].Year < rrl_loaded[j].Year) =>
            /\ rrl_pc \in {"names", "matched"} =>
                   /\ ~Survives(rrl_loaded[i])
                   /\ Survives(rrl_loaded[j])
            /\ (rrl_pc = "matched" /\ Observed # None) =>
                   ~SameRecord(Observed, rrl_loaded[i])

----------------------------------------------------------------------------
(* Claims about the passes over the Catalog flag *)

\* the frame that holds the Catalog flag of the sources at this point
CurrentFrame == IF flag_pc \in {"read", "fixed"} THEN WISE_frame ELSE WISE_Matched_df

Resolves(df, i) == df[i].Group # NaN /\ \E k \in DOMAIN df : df[k].Name = df[i].Group

\* C11: when all the passes have run, no source whose Group_Flag is set and
\* whose group is the name of a source has the flag known or observe (a
\* source that a radio detection moved from no_radio to observe included).
C11_GroupedSourcesEndGroup ==
    flag_pc = "done" =>
        \A i \in DOMAIN WISE_Matched_df :
            (WISE_Matched_df[i].Group_Flag = 1 /\ Resolves(WISE_Matched_df, i)) =>
                WISE_Matched_df[i].Catalog \notin {"known", "observe"}

\* C12: a step gives a source that names a group the flag group only if its
\* Group_Flag is set and its group is the name of a source; a source whose
\* group is the name of no source is not given the flag group.
C12_GroupOnlyIfResolved ==
    [][\A i \in DOMAIN CurrentFrame :
           (i \in DOMAIN CurrentFrame'
               /\ CurrentFrame[i].Group # NaN
               /\ CurrentFrame[i].Catalog # "group"
               /\ CurrentFrame'[i].Catalog = "group") =>
                   /\ CurrentFrame[i].Group_Flag = 1
                   /\ Resolves(CurrentFrame, i)]_vars

\* the group values of a row
GroupValuesOf(r) == <<r.Group_VLSR, r.Group_e_VLSR, r.Group_KDAR>>

\* the values of the first source of the catalog file that bears name g
FirstBearer(g) ==
    LET k == CHOOSE j \in DOMAIN WISE_frame :
                 /\ WISE_frame[j].Name = g
                 /\ \A h \in 1..(j - 1) : WISE_frame[h].Name # g
    IN  <<WISE_frame[k].VLSR, WISE_frame[k].e_VLSR, WISE_frame[k].KDAR>>

\* C14: in the pass over the group attributes, a source whose group is the
\* name of no source is reported with its group and keeps its three group
\* values unset, whatever rows came before it; a source whose group is the
\* name of a source has the values of the first source of that name, so that
\* two sources of one resolved group have the same three values.
C14_GroupAttributes ==
    flag_pc \in {"attrs", "surveys", "done"} =>
        \A i \in 1..group_i :
            LET r == WISE_Matched_df[i]
            IN  /\ (r.Group # NaN /\ ~Resolves(WISE_Matched_df, i)) =>
                       /\ \E u \in DOMAIN unresolved : unresolved[u] = <<i, r.Group>>
                       /\ GroupValuesOf(r) = <<NoValue, NoValue, NoValue>>
                /\ Resolves(WISE_Matched_df, i) =>
                       /\ GroupValuesOf(r) = FirstBearer(r.Group)
                       /\ \A j \in 1..group_i :
                              WISE_Matched_df[j].Group = r.Group =>
                                  GroupValuesOf(WISE_Matched_df[j]) = GroupValuesOf(r)

\* the pass has reported a source and then given the next source the values
\* of the first of two sources that bear the name of its group
C14_Witness ==
    /\ flag_pc = "done"
    /\ Len(WISE_Matched_df) = 2
    /\ unresolved = <<<<1, Str("C")>>>>
    /\ WISE_Matched_df[1].Name = Str("A") /\ WISE_Matched_df[2].Name = Str("A")
    /\ WISE_Matched_df[1].VLSR = Num(30) /\ WISE_Matched_df[2].VLSR = Num(10)
    /\ WISE_Matched_df[2].Group = Str("A")
    /\ WISE_Matched_df[2].Group_VLSR = Num(30)

----------------------------------------------------------------------------
(* Claims about gen_groups *)

\* the row of the catalog file with GName g
RowOf(g) == gg_wise[CHOOSE k \in DOMAIN gg_wise : gg_wise[k].GName = g]

\* a value a row reports is no value or the stored value
Agrees(val, stored) == val = "" \/ val = stored

\* C13: in gen_groups, after any sequence of catalog rows, the vlsr, e_vlsr
\* and kdar of a group do not change once they are not empty, and every
\* member recorded for the group reports, for each of the three, no value or
\* the value stored for the group.
C13_GroupValuesSettle ==
    /\ [][\A idx \in DOMAIN group_info : \A f \in 1..3 :
              group_info[idx][f] # "" => group_info'[idx][f] = group_info[idx][f]]_vars
    /\ [](\A idx \in DOMAIN group_members : \A m \in DOMAIN group_members[idx] :
              LET r == RowOf(group_members[idx][m])
              IN  /\ Agrees(r.Group_VLSR, group_info[idx][1])
                  /\ Agrees(r.Group_e_VLSR, group_info[idx][2])
                  /\ Agrees(r.Group_KDAR, group_info[idx][3]))

\* a group that was made without a velocity got one from its second member
\* and refused a row with another velocity
C13_Witness ==
    /\ gg_pc = "collected"
    /\ gg_wise[1].Group = "W3" /\ gg_wise[1].Group_VLSR = ""
    /\ gg_wise[2].Group = "W3" /\ gg_wise[2].Group_VLSR = "10"
    /\ gg_wise[3].Group = "W3" /\ gg_wise[3].Group_VLSR = "20"
    /\ group_info[1][1] = "10"
    /\ group_members[1] = <<gg_wise[1].GName, gg_wise[2].GName>>

----------------------------------------------------------------------------
(* Claims about match_by_name on permuted and repeated input *)

\* the rows of df in the order p
Permuted(df, p) == [k \in DOMAIN df |-> df[p[k]]]

\* row m of df and row n of ef are the same record, or both are no record
SameMatch(df, m, ef, n) ==
    \/ m = None /\ n = None
    \/ m # None /\ n # None /\ df[m] = ef[n]

\* C15: with order_by = Year, the record match_by_name attaches to a source
\* is the record it attaches for every other row order of the same records,
\* records that share the Year included.
C15_SameRecordInEveryOrder ==
    \A i \in DOMAIN matched_rows :
        order_by = "Year" =>
            \A p \in Orders(Len(matching_df)) :
                LET split == Name_Split(matched_rows[i].Name)
                    ef == Permuted(matching_df, p)
                IN  \A n \in MatchedRowAfter(split, ef, order_by, tie_order, Len(split)) :
                        SameMatch(matching_df, matched_rows[i].matched_row, ef, n)


\* no alias of the source is the Name of a record
NoAliasMatches(df, split) == \A a \in Range(split) : \A k \in DOMAIN df : df[k].Name # a

\* C16: match_by_name has an output row for the next source whatever its
\* aliases are,
\* gives one output row per source in input order, attaches no record to a
\* source none of whose aliases is the Name of a record, and never attaches
\* the record with the empty Name to a source whose Name is no string (its
\* alias list is empty).
C16_NoMatchIsNoRecord ==
    /\ (mbn_pc = "loop" /\ Len(matched_rows) < Len(WISE_df)) =>
           LET split == Name_Split(WISE_df[Len(matched_rows) + 1])
           IN  MatchedRowAfter(split, matching_df, order_by, tie_order, Len(split)) # {}
    /\ Len(matched_rows) <= Len(WISE_df)
    /\ mbn_pc = "done" => Len(matched_rows) = Len(WISE_df)
    /\ \A i \in DOMAIN matched_rows :
           /\ matched_rows[i].Name = WISE_df[i]
           /\ NoAliasMatches(matching_df, Name_Split(WISE_df[i])) =>
                  matched_rows[i].matched_row = None
           /\ WISE_df[i] = NaNName =>
                  \A k \in DOMAIN matching_df :
                      matching_df[k].Name = <<>> => matched_rows[i].matched_row # k

\* a source without a Name met a record with the empty Name, and a source
\* named A met only records of other names
C16_Witness ==
    /\ mbn_pc = "done"
    /\ \E i \in DOMAIN WISE_df :
           /\ WISE_df[i] = NaNName
           /\ \E k \in DOMAIN matching_df : matching_df[k].Name = <<>>
           /\ matched_rows[i].matched_row = None
    /\ \E i \in DOMAIN WISE_df :
           /\ WISE_df[i] = <<"A">>
           /\ \E k \in DOMAIN matching_df : matching_df[k].Name = <<"B">>
           /\ matched_rows[i].matched_row = None


\* C17: match_by_name applied to its own output, with the same records,
\* extension and order_by, returns the frame it was given: the same columns
\* and the same cells for every source.
C17_SecondMergeChangesNothing ==
    merge_n = 2 => merged_df = first_df

----------------------------------------------------------------------------
(* Claims about the load order of the survey records *)

\* C18: when the loaded survey records share their Name and their Year, what
\* is left after the de-duplication by Name is the same for every order in
\* which the records were loaded.
C18_SurvivorInEveryLoadOrder ==
    (/\ rrl_pc = "names"
     /\ \A a, b \in DOMAIN rrl_loaded :
            rrl_loaded[a].Name = rrl_loaded[b].Name /\ rrl_loaded[a].Year = rrl_loaded[b].Year)
        => \A p \in Orders(Len(rrl_loaded)) :
               NameDeduplicated(PositionDeduplicated(Permuted(rrl_loaded, p))) = RRL_Surveys_df

----------------------------------------------------------------------------
(* Claims about the identifiers of two positions *)

\* a coordinate of x units truncated to three decimals, in millidegrees
Truncated(x) == IF x < 0 THEN -(Abs(x) \div SubMilli) ELSE x \div SubMilli

\* C19: a valid position gets the identifier of the position generate_gname
\* was called on only if the longitudes of the two, truncated to three
\* decimals, are equal and their latitudes, truncated to three decimals, are
\* equal.
C19_SameNameOnlyIfSameTruncation ==
    gn_pc = "done" =>
        \A gl \in GLongInputs, gb \in GLatInputs :
            generate_gname(gl, gb) = GName =>
                Truncated(gl) = Truncated(glong) /\ Truncated(gb) = Truncated(glat)


\* a longitude in [0, 360) and a latitude in [-90, 90], in units
ValidPosition(gl, gb) ==
    /\ 0 <= gl /\ gl < 360 * Milli * SubMilli
    /\ -90 * Milli * SubMilli <= gb /\ gb <= 90 * Milli * SubMilli

\* C20: generate_gname returns no identifier for a longitude outside [0, 360)
\* or a latitude outside [-90, 90]: the call does not complete and GName
\* stays without a value.
C20_InvalidPositionHasNoName ==
    ~ValidPosition(glong, glat) => (gn_pc # "done" /\ GName = <<>>)

----------------------------------------------------------------------------
(* Claims about the radio detections *)

\* row i of df has a radio continuum record or a survey detection
Detected(df, i) ==
    df[i].Radio_Continuum \/ \E k \in DOMAIN SurveyFlags : SurveyFlags[k] \in df[i].Surveys

----------------------------------------------------------------------------
(* Claims about the rows that link the tables *)

\* C22: every CatalogGroups row of gen_groups names a row of Groups and a
\* row of Catalog; every CatalogDetections row of add_detections names a row
\* of Catalog and a row of Detections; and once add_detections has stopped,
\* every row of Detections has exactly one CatalogDetections row.
C22_LinkRowsReferenceRows ==
    /\ \A c \in DOMAIN CatalogGroups :
           /\ CatalogGroups[c].group_id \in DOMAIN Groups
           /\ CatalogGroups[c].catalog \in gg_Catalog
    /\ \A c \in DOMAIN CatalogDetections :
           /\ CatalogDetections[c].catalog \in Catalog
           /\ \E i \in DOMAIN Detections : Detections[i].id = CatalogDetections[c].detection_id
    /\ det_pc \in {"done", "raised"} =>
           \A i \in DOMAIN Detections :
               Cardinality({c \in DOMAIN CatalogDetections :
                               CatalogDetections[c].detection_id = Detections[i].id}) = 1

----------------------------------------------------------------------------
(* Claims about the rows gen_groups refuses *)

\* the row reports, for one of the three fields, a value that is not the
\* value stored for its group
Differs(info, row) ==
    \/ row.Group_VLSR # "" /\ info[1] # "" /\ info[1] # row.Group_VLSR
    \/ row.Group_e_VLSR # "" /\ info[2] # "" /\ info[2] # row.Group_e_VLSR
    \/ row.Group_KDAR # "" /\ info[3] # "" /\ info[3] # row.Group_KDAR

\* C26: the step of gen_groups over a row of a group that is there already,
\* one of whose three values differs from the value stored for the group,
\* leaves the stored values of the groups and their member lists as they
\* were.
C26_RefusedRowChangesNothing ==
    [][(/\ gg_pc = "loop" /\ gg_k < Len(gg_wise)
        /\ gg_w.Group \in Range(all_groups)
        /\ Differs(group_info[IndexOf(all_groups, gg_w.Group)], gg_w))
           => (group_info' = group_info /\ group_members' = group_members)]_vars

----------------------------------------------------------------------------
(* Claims about add_region *)

\* C23: after any calls of add_region the right ascension and declination of
\* every record are the transform of the record's own galactic position.
C23_CoordinatesOfOwnPosition ==
    \A k \in DOMAIN regions_df :
        /\ regions_df[k].RA = RightAscension(regions_df[k].GLong, regions_df[k].GLat)
        /\ regions_df[k].Dec = Declination(regions_df[k].GLong, regions_df[k].GLat)

\* the measured attributes of a record
Measured(r) == <<r.Name, r.GLong, r.GLat, r.VLSR>>

\* C24: a call of add_region makes the frame one record longer and leaves
\* the measured attributes of the records that were there as they were, so
\* that every region added so far is in the frame.
C24_AddsOneOverwritesNone ==
    [][/\ Len(regions_df') = Len(regions_df) + 1
       /\ \A k \in DOMAIN regions_df : Measured(regions_df'[k]) = Measured(regions_df[k])
       /\ \A a \in DOMAIN added' :
              \E k \in DOMAIN regions_df' : Measured(regions_df'[k]) = Measured(added'[a])]_vars

----------------------------------------------------------------------------
(* Claims about make_df *)

\* C25: the frame make_df returns holds every record of every file that
\* qualifies exactly once, with the requested columns and no others.
C25_EveryRecordOnce ==
    md_pc = "returned" =>
        /\ \A i \in DOMAIN listdir :
               Qualifies(listdir[i]) =>
                   \A r \in Range(read_pickle(listdir[i])) :
                       Cardinality({k \in DOMAIN md_df.v :
                                       md_df.v[k].record = r.record}) = 1
        /\ \A k \in DOMAIN md_df.v : md_df.v[k].columns = md_columns

----------------------------------------------------------------------------
(* Claims about match_by_distance *)

\* the square of the Euclidean separation of a source and a record
DistanceSquaredEuclidean(src, m) ==
    (src.GLong - m.GLong) * (src.GLong - m.GLong) + (src.GLat - m.GLat) * (src.GLat - m.GLat)

\* the records of matching_df within size of a source, by the Euclidean
\* separation
Near(src, df, size) ==
    {j \in DOMAIN df : size > 0 /\ DistanceSquaredEuclidean(src, df[j]) < size * size}

\* the returned row is the source with the columns of record j attached
Attached(row, src, df, j, extension) == row = MatchedRowInfo(src, df[j], extension)

\* C27: every row match_by_distance returns is made of the row of WISE_df at
\* its place: with no record within size of it the row itself, and otherwise
\* the row with the columns of a record within size, one of the highest
\* order_by value among those within size when order_by is a column.
C27_AttachesNearestByEuclid ==
    near_pc = "returned" =>
        \A i \in DOMAIN near_rows :
            LET src == near_WISE_df[i]
                near == Near(src, near_matching_df, near_size)
            IN  \/ near_rows[i] = src
                \/ \E j \in near :
                       /\ Attached(near_rows[i], src, near_matching_df, j, near_extension)
                       /\ near_order_by = "Year" =>
                              \A k \in near : near_matching_df[k].Year <= near_matching_df[j].Year

====
